---- MODULE Spec2Model ----
(***************************************************************************)
(* Locomotion core of ascii_shooter: the movement kernel                   *)
(* (src/src/player/movement.rs), the slope height function                 *)
(* (src/src/level/mod.rs) and the per-frame player systems                 *)
(* (src/src/player/mod.rs).                                                *)
(*                                                                         *)
(* Numbers.  The program computes in f32.  Here every length and speed is  *)
(* a fixed-point integer counting thousandths of a world unit (1000 is     *)
(* 1.0), the frame time dt counts milliseconds, and every product or       *)
(* quotient that leaves the grid is rounded to the nearest grid point, as  *)
(* an f32 operation rounds to the nearest float.  sqrt is the correctly    *)
(* rounded integer square root.                                            *)
(***************************************************************************)
EXTENDS Integers, Sequences, FiniteSets, TLC

\* One world unit, and one second in milliseconds.
Unit == 10 * 10 * 10
Second == 10 * 10 * 10

-----------------------------------------------------------------------------
(* f32 arithmetic on the fixed-point grid *)

Abs(a) == IF a < 0 THEN -a ELSE a
Min(a, b) == IF a < b THEN a ELSE b
Max(a, b) == IF a > b THEN a ELSE b

\* a / b rounded to nearest (b > 0), symmetric in the sign of a.
RDiv(a, b) == IF a >= 0 THEN (a + b \div 2) \div b ELSE -((-a + b \div 2) \div b)

\* a * b / c rounded once.
MulDiv(a, b, c) == RDiv(a * b, c)

\* Bisection for the largest r in lo..hi with r * r <= n.  The midpoint is bound
\* by the set constructor, so each level of the search computes it once.
RECURSIVE SqrtSearch(_, _, _)
SqrtSearch(n, lo, hi) ==
    IF lo >= hi THEN lo
    ELSE CHOOSE r \in {IF mid * mid <= n THEN SqrtSearch(n, mid, hi)
                                         ELSE SqrtSearch(n, lo, mid - 1) :
                       mid \in {(lo + hi + 1) \div 2}} : TRUE

\* sqrt(n) rounded to nearest; 46340 is the largest root of a 32-bit square.
Sqrt(n) ==
    LET r == SqrtSearch(n, 0, 46340)
    IN IF n - r * r > r THEN r + 1 ELSE r

V3(x, y, z) == [x |-> x, y |-> y, z |-> z]
V2(x, z) == [x |-> x, z |-> z]
Zero3 == V3(0, 0, 0)

\* Vec3::dot with a direction whose components are in thousandths.
Dot(v, d) == RDiv(v.x * d.x + v.y * d.y + v.z * d.z, Unit)
\* Vec3 + Vec3 * f32
AddScaled(v, d, s) ==
    V3(v.x + MulDiv(d.x, s, Unit), v.y + MulDiv(d.y, s, Unit), v.z + MulDiv(d.z, s, Unit))
\* Vec2::new(v.x, v.z).length()
HorizLen(v) == Sqrt(v.x * v.x + v.z * v.z)
\* Vec3::length_squared()
Len3Sq(v) == v.x * v.x + v.y * v.y + v.z * v.z
\* Vec3::length()
Len3(v) == Sqrt(v.x * v.x + v.y * v.y + v.z * v.z)
\* Vec3::length_squared() > 0.0
NonZero(d) == d.x # 0 \/ d.y # 0 \/ d.z # 0

-----------------------------------------------------------------------------
(* MovementConfig::default *)

sv_maxspeed == 7500
sv_accelerate == 6
sv_airaccelerate == 12
sv_friction == 5
sv_gravity == 12000
sv_jumpspeed == 6200
sv_stopspeed == 1800
sv_air_wishspeed_cap == 1500
sv_air_speed_cap == 25000
player_height == 1800
player_radius == 400

\* Literals of ground_check and player_collision.
max_step_up == 600
grounded_tolerance == 100
grounded_max_vy == 100
friction_snap_speed == 100
slope_bottom_margin == 500
slope_step_skip == 600
slope_push_up_limit == 2000

-----------------------------------------------------------------------------
(* Locomotion kernel: movement.rs *)

\* accel * wish_speed * dt, accel a plain factor, dt in milliseconds.
AccelSpeed(accel, wish_speed, dt) == RDiv(accel * wish_speed * dt, Second)

\* accelerate limiting the speed, not the projection on the wish direction:
\* the sum is scaled back to wish_speed when it is faster.
accelerate_speed_limited(velocity, wish_dir, wish_speed, accel, dt) ==
    LET new_vel == AddScaled(velocity, wish_dir, AccelSpeed(accel, wish_speed, dt))
        new_speed == Len3(new_vel)
    IN IF new_speed > wish_speed
       THEN V3(MulDiv(new_vel.x, wish_speed, new_speed), MulDiv(new_vel.y, wish_speed, new_speed),
               MulDiv(new_vel.z, wish_speed, new_speed))
       ELSE new_vel

\* accelerate adding the whole accel_speed, not limited to add_speed.
accelerate_unclamped(velocity, wish_dir, wish_speed, accel, dt) ==
    LET current_speed == Dot(velocity, wish_dir)
        add_speed == wish_speed - current_speed
    IN IF add_speed <= 0 THEN velocity
       ELSE AddScaled(velocity, wish_dir, AccelSpeed(accel, wish_speed, dt))

\* accelerate without the early return on add_speed <= 0.
accelerate_no_early_return(velocity, wish_dir, wish_speed, accel, dt) ==
    LET current_speed == Dot(velocity, wish_dir)
        add_speed == wish_speed - current_speed
    IN AddScaled(velocity, wish_dir, Min(AccelSpeed(accel, wish_speed, dt), add_speed))

accelerate(velocity, wish_dir, wish_speed, accel, dt) ==
    LET current_speed == Dot(velocity, wish_dir)
        add_speed == wish_speed - current_speed
    IN IF add_speed <= 0 THEN velocity
       ELSE AddScaled(velocity, wish_dir, Min(AccelSpeed(accel, wish_speed, dt), add_speed))

\* The soft cap rescaling the vertical component with the horizontal ones.
AirSpeedCap_scale_vertical(new_vel, air_speed_cap) ==
    LET horiz_speed == HorizLen(new_vel)
    IN IF horiz_speed > air_speed_cap
       THEN V3(MulDiv(new_vel.x, air_speed_cap, horiz_speed),
               MulDiv(new_vel.y, air_speed_cap, horiz_speed),
               MulDiv(new_vel.z, air_speed_cap, horiz_speed))
       ELSE new_vel

\* The soft cap at the end of air_accelerate.
AirSpeedCap(new_vel, air_speed_cap) ==
    LET horiz_speed == HorizLen(new_vel)
    IN IF horiz_speed > air_speed_cap
       THEN V3(MulDiv(new_vel.x, air_speed_cap, horiz_speed), new_vel.y,
               MulDiv(new_vel.z, air_speed_cap, horiz_speed))
       ELSE new_vel

\* air_accelerate with the acceleration term computed from the capped wish
\* speed.
air_accelerate_capped_accel(velocity, wish_dir, wish_speed, accel, air_wishspeed_cap, air_speed_cap, dt) ==
    LET capped_wish_speed == Min(wish_speed, air_wishspeed_cap)
        current_speed == Dot(velocity, wish_dir)
        add_speed == capped_wish_speed - current_speed
    IN IF add_speed <= 0 THEN velocity
       ELSE AirSpeedCap(
              AddScaled(velocity, wish_dir, Min(AccelSpeed(accel, capped_wish_speed, dt), add_speed)),
              air_speed_cap)

\* air_accelerate measuring current_speed as the speed, not as the projection on
\* the wish direction.
air_accelerate_by_speed(velocity, wish_dir, wish_speed, accel, air_wishspeed_cap, air_speed_cap, dt) ==
    LET capped_wish_speed == Min(wish_speed, air_wishspeed_cap)
        current_speed == HorizLen(velocity)
        add_speed == capped_wish_speed - current_speed
    IN IF add_speed <= 0 THEN velocity
       ELSE AirSpeedCap(
              AddScaled(velocity, wish_dir, Min(AccelSpeed(accel, wish_speed, dt), add_speed)),
              air_speed_cap)

air_accelerate(velocity, wish_dir, wish_speed, accel, air_wishspeed_cap, air_speed_cap, dt) ==
    LET capped_wish_speed == Min(wish_speed, air_wishspeed_cap)
        current_speed == Dot(velocity, wish_dir)
        add_speed == capped_wish_speed - current_speed
    IN IF add_speed <= 0 THEN velocity
       ELSE AirSpeedCap(
              AddScaled(velocity, wish_dir, Min(AccelSpeed(accel, wish_speed, dt), add_speed)),
              air_speed_cap)

\* apply_friction with neither the snap to zero below 0.1 nor the stop_speed
\* floor of control: the drop is proportional to the speed.
apply_friction_creeping(velocity, friction, stop_speed, dt) ==
    LET speed == Len3(velocity)
    IN IF speed = 0 THEN Zero3
       ELSE LET drop == RDiv(speed * friction * dt, Second)
                new_speed == Max(speed - drop, 0)
            IN IF new_speed > 0
               THEN V3(MulDiv(velocity.x, new_speed, speed),
                       MulDiv(velocity.y, new_speed, speed),
                       MulDiv(velocity.z, new_speed, speed))
               ELSE Zero3

\* apply_friction snapping to zero only a velocity that is zero already.
apply_friction_snap_zero_only(velocity, friction, stop_speed, dt) ==
    LET speed == Len3(velocity)
    IN IF speed = 0 THEN Zero3
       ELSE LET control == Max(speed, stop_speed)
                drop == RDiv(control * friction * dt, Second)
                new_speed == Max(speed - drop, 0)
            IN IF new_speed > 0
               THEN V3(MulDiv(velocity.x, new_speed, speed),
                       MulDiv(velocity.y, new_speed, speed),
                       MulDiv(velocity.z, new_speed, speed))
               ELSE Zero3

\* apply_friction with new_speed not floored at zero.
apply_friction_no_floor(velocity, friction, stop_speed, dt) ==
    LET speed == Len3(velocity)
    IN IF Len3Sq(velocity) < friction_snap_speed * friction_snap_speed THEN Zero3
       ELSE LET control == Max(speed, stop_speed)
                drop == RDiv(control * friction * dt, Second)
                new_speed == speed - drop
            IN V3(MulDiv(velocity.x, new_speed, speed),
                  MulDiv(velocity.y, new_speed, speed),
                  MulDiv(velocity.z, new_speed, speed))

\* speed < 0.1 is decided on the squares: the rounded root of a speed just
\* below 0.1 is 0.1 on the grid, while the f32 root stays below it.
apply_friction(velocity, friction, stop_speed, dt) ==
    LET speed == Len3(velocity)
    IN IF Len3Sq(velocity) < friction_snap_speed * friction_snap_speed THEN Zero3
       ELSE LET control == Max(speed, stop_speed)
                drop == RDiv(control * friction * dt, Second)
                new_speed == Max(speed - drop, 0)
            IN IF new_speed > 0
               THEN V3(MulDiv(velocity.x, new_speed, speed),
                       MulDiv(velocity.y, new_speed, speed),
                       MulDiv(velocity.z, new_speed, speed))
               ELSE Zero3

-----------------------------------------------------------------------------
(* Static collider set: level/mod.rs *)

\* An entity with a Transform and a BoxCollider; wall, ground and slope say
\* whether it also carries WallCollider, GroundFloor and Slope.
Collider(p, h, wall, ground, slope, direction, rise_per_unit) ==
    [pos |-> p, half |-> h, wall |-> wall, ground |-> ground, slope |-> slope,
     direction |-> direction, rise_per_unit |-> rise_per_unit]

FloorBox(p, h) == Collider(p, h, FALSE, FALSE, FALSE, V2(0, 0), 0)
WallBox(p, h) == Collider(p, h, TRUE, FALSE, FALSE, V2(0, 0), 0)
\* Slope::rising_z
RampZ(p, h, rise_per_unit) == Collider(p, h, FALSE, FALSE, TRUE, V2(0, Unit), rise_per_unit)
\* Slope::rising_x
RampX(p, h, rise_per_unit) == Collider(p, h, FALSE, FALSE, TRUE, V2(Unit, 0), rise_per_unit)
\* The 250 x 250 ground plane of spawn_test_level.
GroundPlane == Collider(V3(0, 0, 0), V3(125000, 500, 125000), FALSE, TRUE, FALSE, V2(0, 0), 0)

\* height_at measuring the distance from the low end of the slope, not from
\* its center.
height_at_from_low_end(slope, slope_center, half_extents, world_pos) ==
    LET relative_x == world_pos.x - (slope_center.x - half_extents.x)
        relative_z == world_pos.z - (slope_center.z - half_extents.z)
        distance_along == RDiv(relative_x * slope.direction.x + relative_z * slope.direction.z, Unit)
        base_top == slope_center.y + half_extents.y
    IN base_top + MulDiv(distance_along, slope.rise_per_unit, Unit)

\* Slope::height_at
height_at(slope, slope_center, half_extents, world_pos) ==
    LET relative_x == world_pos.x - slope_center.x
        relative_z == world_pos.z - slope_center.z
        distance_along == RDiv(relative_x * slope.direction.x + relative_z * slope.direction.z, Unit)
        base_top == slope_center.y + half_extents.y
    IN base_top + MulDiv(distance_along, slope.rise_per_unit, Unit)

-----------------------------------------------------------------------------
(* State *)

VARIABLES
    colliders,      \* the static collider set, in query order
    pos,            \* Transform.translation of the player
    vel,            \* Velocity
    grounded,       \* PlayerState.grounded
    ground_height,  \* PlayerState.ground_height
    wish_jump,      \* PlayerState.wish_jump
    wish_dir,       \* WishDir
    dt,             \* Time::delta_secs of the running frame, in milliseconds
    feet_y,         \* the local feet_y of player_collision
    pc,             \* the system of the chain that runs next
    tick,           \* frames completed, counted up to MaxTicks
    pos0,           \* history: translation when the frame began
    jumped,         \* history: player_movement of this frame applied the jump
    residual,       \* history: the last wall pass left the player inside a wall footprint
    steps,          \* history: the systems run so far in this frame
    collided,       \* history: player_collision of this frame changed position or velocity
    args,           \* kernel runs: the tuning arguments the kernel function is called with
    vel0            \* kernel runs: the velocity the run began with

vars == <<colliders, pos, vel, grounded, ground_height, wish_jump, wish_dir, dt,
          feet_y, pc, tick, pos0, jumped, residual, steps, collided, args, vel0>>

-----------------------------------------------------------------------------
(* ground_check *)

\* |player - center| < half + player_radius on both horizontal axes.
InFootprint(p, c) ==
    /\ Abs(p.x - c.pos.x) < c.half.x + player_radius
    /\ Abs(p.z - c.pos.z) < c.half.z + player_radius

\* floor_query without the GroundFloor filter.
IsFloor_with_ground_plane(c) == ~c.wall

\* floor_query: BoxCollider, Without WallCollider, Without GroundFloor.
IsFloor(c) == ~c.wall /\ ~c.ground

FloorTop(c, p) ==
    IF c.slope THEN height_at(c, c.pos, c.half, p) ELSE c.pos.y + c.half.y

FeetY(p) == p.y - player_height \div 2

\* can_step_up || is_below_player
Accepts(floor_top, p) ==
    LET can_step_up == floor_top <= FeetY(p) + max_step_up
        is_below_player == floor_top < p.y
    IN can_step_up \/ is_below_player

\* The scan keeping the last accepted candidate, not the highest.
RECURSIVE GroundScan_last_wins(_, _, _, _)
GroundScan_last_wins(cs, i, p, gh) ==
    IF i > Len(cs) THEN gh
    ELSE LET c == cs[i]
             floor_top == FloorTop(c, p)
         IN IF IsFloor(c) /\ InFootprint(p, c) /\ Accepts(floor_top, p) /\ floor_top > 0
            THEN GroundScan_last_wins(cs, i + 1, p, floor_top)
            ELSE GroundScan_last_wins(cs, i + 1, p, gh)

RECURSIVE GroundScan(_, _, _, _)
GroundScan(cs, i, p, gh) ==
    IF i > Len(cs) THEN gh
    ELSE LET c == cs[i]
             floor_top == FloorTop(c, p)
         IN IF IsFloor(c) /\ InFootprint(p, c) /\ Accepts(floor_top, p) /\ floor_top > gh
            THEN GroundScan(cs, i + 1, p, floor_top)
            ELSE GroundScan(cs, i + 1, p, gh)

GroundHeight(cs, p) == GroundScan(cs, 1, p, 0)

\* IsGrounded without the test on the vertical velocity.
IsGrounded_no_velocity_guard(p, v, gh) ==
    FeetY(p) <= gh + grounded_tolerance

IsGrounded(p, v, gh) ==
    FeetY(p) <= gh + grounded_tolerance /\ v.y <= grounded_max_vy

-----------------------------------------------------------------------------
(* player_collision *)

\* FloorClamp lifting the player and leaving the velocity as it was.
FloorClamp_keeps_velocity(st, fy, gh) ==
    IF fy < gh
    THEN [pos |-> [st.pos EXCEPT !.y = gh + player_height \div 2], vel |-> st.vel]
    ELSE st

\* FloorClamp zeroing the vertical velocity whatever its sign.
FloorClamp_zero_any_vy(st, fy, gh) ==
    IF fy < gh
    THEN [pos |-> [st.pos EXCEPT !.y = gh + player_height \div 2],
          vel |-> [st.vel EXCEPT !.y = 0]]
    ELSE st

\* The floor clamp against PlayerState.ground_height.
FloorClamp(st, fy, gh) ==
    IF fy < gh
    THEN [pos |-> [st.pos EXCEPT !.y = gh + player_height \div 2],
          vel |-> IF st.vel.y < 0 THEN [st.vel EXCEPT !.y = 0] ELSE st.vel]
    ELSE st

\* PushX with combined_x lacking the player radius.
PushX_no_radius(st, c) ==
    LET diff_x == st.pos.x - c.pos.x
        combined_x == c.half.x
    IN IF diff_x > 0
       THEN [pos |-> [st.pos EXCEPT !.x = c.pos.x + combined_x],
             vel |-> [st.vel EXCEPT !.x = Max(st.vel.x, 0)]]
       ELSE [pos |-> [st.pos EXCEPT !.x = c.pos.x - combined_x],
             vel |-> [st.vel EXCEPT !.x = Min(st.vel.x, 0)]]

\* PushX moving the player and leaving velocity.x as it was.
PushX_keeps_velocity(st, c) ==
    LET diff_x == st.pos.x - c.pos.x
        combined_x == c.half.x + player_radius
    IN IF diff_x > 0
       THEN [pos |-> [st.pos EXCEPT !.x = c.pos.x + combined_x], vel |-> st.vel]
       ELSE [pos |-> [st.pos EXCEPT !.x = c.pos.x - combined_x], vel |-> st.vel]

\* Push out of a box footprint along X, to the side the player is on.
PushX(st, c) ==
    LET diff_x == st.pos.x - c.pos.x
        combined_x == c.half.x + player_radius
    IN IF diff_x > 0
       THEN [pos |-> [st.pos EXCEPT !.x = c.pos.x + combined_x],
             vel |-> [st.vel EXCEPT !.x = Max(st.vel.x, 0)]]
       ELSE [pos |-> [st.pos EXCEPT !.x = c.pos.x - combined_x],
             vel |-> [st.vel EXCEPT !.x = Min(st.vel.x, 0)]]

PushZ(st, c) ==
    LET diff_z == st.pos.z - c.pos.z
        combined_z == c.half.z + player_radius
    IN IF diff_z > 0
       THEN [pos |-> [st.pos EXCEPT !.z = c.pos.z + combined_z],
             vel |-> [st.vel EXCEPT !.z = Max(st.vel.z, 0)]]
       ELSE [pos |-> [st.pos EXCEPT !.z = c.pos.z - combined_z],
             vel |-> [st.vel EXCEPT !.z = Min(st.vel.z, 0)]]

PenX(p, c) == c.half.x + player_radius - Abs(p.x - c.pos.x)
PenZ(p, c) == c.half.z + player_radius - Abs(p.z - c.pos.z)

\* One iteration of the slope loop; fy is the feet_y taken before the floor clamp.
SlopeResolve(st, c, fy) ==
    IF ~InFootprint(st.pos, c) THEN st
    ELSE LET slope_height == height_at(c, c.pos, c.half, st.pos)
             player_bottom == fy
             slope_bottom == c.pos.y - c.half.y
         IN IF ~(player_bottom < slope_height /\ player_bottom > slope_bottom - slope_bottom_margin)
            THEN st
            ELSE LET height_diff == slope_height - player_bottom
                     pen_x == PenX(st.pos, c)
                     pen_z == PenZ(st.pos, c)
                     pen_y == slope_height - player_bottom
                 IN IF height_diff < slope_step_skip THEN st
                    ELSE IF pen_y < pen_x /\ pen_y < pen_z /\ pen_y < slope_push_up_limit
                    THEN [pos |-> [st.pos EXCEPT !.y = slope_height + player_height \div 2],
                          vel |-> IF st.vel.y < 0 THEN [st.vel EXCEPT !.y = 0] ELSE st.vel]
                    ELSE IF pen_x < pen_z THEN PushX(st, c)
                    ELSE PushZ(st, c)

RECURSIVE SlopeScan(_, _, _, _)
SlopeScan(cs, i, st, fy) ==
    IF i > Len(cs) THEN st
    ELSE SlopeScan(cs, i + 1, IF cs[i].slope THEN SlopeResolve(st, cs[i], fy) ELSE st, fy)

\* WallResolve leaving alone a player whose feet are above the top of the box.
WallResolve_below_top_only(st, c) ==
    IF InFootprint(st.pos, c) /\ FeetY(st.pos) < c.pos.y + c.half.y
    THEN IF PenX(st.pos, c) < PenZ(st.pos, c) THEN PushX(st, c) ELSE PushZ(st, c)
    ELSE st

\* WallResolve pushing out along the axis of the larger penetration.
WallResolve_larger_axis(st, c) ==
    IF InFootprint(st.pos, c)
    THEN IF PenX(st.pos, c) > PenZ(st.pos, c) THEN PushX(st, c) ELSE PushZ(st, c)
    ELSE st

\* One iteration of the wall loop.
WallResolve(st, c) ==
    IF InFootprint(st.pos, c)
    THEN IF PenX(st.pos, c) < PenZ(st.pos, c) THEN PushX(st, c) ELSE PushZ(st, c)
    ELSE st

RECURSIVE WallScan(_, _, _)
WallScan(cs, i, st) ==
    IF i > Len(cs) THEN st
    ELSE WallScan(cs, i + 1, IF cs[i].wall THEN WallResolve(st, cs[i]) ELSE st)

\* The player is inside the expanded footprint of some wall.
InsideAWall(cs, p) == \E i \in 1..Len(cs) : cs[i].wall /\ InFootprint(p, cs[i])

\* The arguments player_movement passes to the kernel.
DefaultArgs ==
    [wish_speed |-> sv_maxspeed, accel |-> sv_airaccelerate,
     air_wishspeed_cap |-> sv_air_wishspeed_cap, air_speed_cap |-> sv_air_speed_cap]

-----------------------------------------------------------------------------
(* Inputs of a frame *)

\* Frames a run of the chain is followed for.
MaxTicks == 3

\* Time::delta_secs values: a 60 Hz frame and a slow 10 Hz frame.
DtSet == {16, 100}

\* WishDir: zero, or a horizontal unit vector (dir.normalize()).
WishDirs == {V3(0, 0, 0), V3(Unit, 0, 0), V3(0, 0, -Unit)}

-----------------------------------------------------------------------------
(* The Update chain of PlayerPlugin::build, one action per system.  The three
   parts of player_collision are three positions of the same system. *)

\* The chain with apply_velocity ahead of player_collision.
NextSystem_integrate_first(step) ==
    CASE step = "player_input" -> "ground_check"
      [] step = "ground_check" -> "player_movement"
      [] step = "player_movement" -> "apply_gravity"
      [] step = "apply_gravity" -> "apply_velocity"
      [] step = "apply_velocity" -> "floor_clamp"
      [] step = "floor_clamp" -> "slope_pass"
      [] step = "slope_pass" -> "wall_pass"
      [] step = "wall_pass" -> "player_input"

\* The system that follows `step` in the chain.
NextSystem(step) ==
    CASE step = "player_input" -> "ground_check"
      [] step = "ground_check" -> "player_movement"
      [] step = "player_movement" -> "apply_gravity"
      [] step = "apply_gravity" -> "floor_clamp"
      [] step = "floor_clamp" -> "slope_pass"
      [] step = "slope_pass" -> "wall_pass"
      [] step = "wall_pass" -> "apply_velocity"
      [] step = "apply_velocity" -> "player_input"

\* Control leaves `step`: the chain moves on and the step is logged.
Advance(step) ==
    /\ pc = step
    /\ pc' = NextSystem(step)
    /\ steps' = Append(steps, step)

\* player_input, with the frame clock: samples the keys and the frame time.
player_input ==
    /\ tick < MaxTicks
    /\ pc = "player_input"
    /\ pc' = NextSystem("player_input")
    /\ steps' = <<"player_input">>
    /\ wish_dir' \in WishDirs
    /\ wish_jump' \in BOOLEAN
    /\ dt' \in DtSet
    /\ pos0' = pos
    /\ jumped' = FALSE
    /\ collided' = FALSE
    /\ UNCHANGED <<args, vel0, colliders, pos, vel, grounded, ground_height, feet_y, tick, residual>>

ground_check ==
    /\ Advance("ground_check")
    /\ ground_height' = GroundHeight(colliders, pos)
    /\ grounded' = IsGrounded(pos, vel, GroundHeight(colliders, pos))
    /\ UNCHANGED <<args, vel0, collided, colliders, pos, vel, wish_jump, wish_dir, dt, feet_y, tick, pos0,
                   jumped, residual>>

\* The jump taken whenever the key is down.
JumpNow_on_key_alone(g, wj) == wj

\* if state.grounded && state.wish_jump
JumpNow(g, wj) == g /\ wj

\* The jump leaving state.grounded as it was.
GroundedAfterJump_kept(jump, g) == g

\* state.grounded = false, in the jump branch only.
GroundedAfterJump(jump, g) == IF jump THEN FALSE ELSE g

\* The horizontal update taking the ground branch whatever the flag.
HorizontalUpdate_ground_branch_only(horiz_vel, g, wd, d) ==
    LET slowed == apply_friction(horiz_vel, sv_friction, sv_stopspeed, d)
    IN IF NonZero(wd)
       THEN accelerate(slowed, wd, sv_maxspeed, sv_accelerate, d)
       ELSE slowed

\* The horizontal update of player_movement for grounded flag g.
HorizontalUpdate(horiz_vel, g, wd, d) ==
    IF g
    THEN LET slowed == apply_friction(horiz_vel, sv_friction, sv_stopspeed, d)
         IN IF NonZero(wd)
            THEN accelerate(slowed, wd, sv_maxspeed, sv_accelerate, d)
            ELSE slowed
    ELSE IF NonZero(wd)
         THEN air_accelerate(horiz_vel, wd, sv_maxspeed, sv_airaccelerate,
                             sv_air_wishspeed_cap, sv_air_speed_cap, d)
         ELSE horiz_vel

player_movement ==
    /\ Advance("player_movement")
    /\ LET jump == JumpNow(grounded, wish_jump)
           g == GroundedAfterJump(jump, grounded)
           vy == IF jump THEN sv_jumpspeed ELSE vel.y
           horiz_vel == HorizontalUpdate(V3(vel.x, 0, vel.z), g, wish_dir, dt)
       IN /\ grounded' = g
          /\ vel' = V3(horiz_vel.x, vy, horiz_vel.z)
          /\ jumped' = jump
    /\ UNCHANGED <<args, vel0, collided, colliders, pos, ground_height, wish_jump, wish_dir, dt, feet_y, tick,
                   pos0, residual>>

\* Gravity with the grounded test inverted.
Gravity_when_grounded(v, g, d) ==
    IF g THEN [v EXCEPT !.y = v.y - RDiv(sv_gravity * d, Second)] ELSE v

\* if !state.grounded { velocity.0.y -= config.sv_gravity * dt }
Gravity(v, g, d) ==
    IF ~g THEN [v EXCEPT !.y = v.y - RDiv(sv_gravity * d, Second)] ELSE v

apply_gravity ==
    /\ Advance("apply_gravity")
    /\ vel' = Gravity(vel, grounded, dt)
    /\ UNCHANGED <<args, vel0, collided, colliders, pos, grounded, ground_height, wish_jump, wish_dir, dt,
                   feet_y, tick, pos0, jumped, residual>>

\* player_collision, part 1: feet_y is taken, then the floor clamp.
floor_clamp ==
    /\ Advance("floor_clamp")
    /\ feet_y' = FeetY(pos)
    /\ LET st == FloorClamp([pos |-> pos, vel |-> vel], FeetY(pos), ground_height)
       IN /\ pos' = st.pos
          /\ vel' = st.vel
          /\ collided' = (collided \/ st # [pos |-> pos, vel |-> vel])
    /\ UNCHANGED <<args, vel0, colliders, grounded, ground_height, wish_jump, wish_dir, dt, tick,
                   pos0, jumped, residual>>

\* player_collision, part 2: the loop over slope_query.
slope_pass ==
    /\ Advance("slope_pass")
    /\ LET st == SlopeScan(colliders, 1, [pos |-> pos, vel |-> vel], feet_y)
       IN /\ pos' = st.pos
          /\ vel' = st.vel
          /\ collided' = (collided \/ st # [pos |-> pos, vel |-> vel])
    /\ UNCHANGED <<args, vel0, colliders, grounded, ground_height, wish_jump, wish_dir, dt, feet_y,
                   tick, pos0, jumped, residual>>

\* player_collision, part 3: the loop over wall_query.
wall_pass ==
    /\ Advance("wall_pass")
    /\ LET st == WallScan(colliders, 1, [pos |-> pos, vel |-> vel])
       IN /\ pos' = st.pos
          /\ vel' = st.vel
          /\ residual' = InsideAWall(colliders, st.pos)
          /\ collided' = (collided \/ st # [pos |-> pos, vel |-> vel])
    /\ UNCHANGED <<args, vel0, colliders, grounded, ground_height, wish_jump, wish_dir, dt, feet_y,
                   tick, pos0, jumped>>

\* transform.translation += velocity.0 * dt
Integrate(p, v, d) ==
    V3(p.x + RDiv(v.x * d, Second), p.y + RDiv(v.y * d, Second), p.z + RDiv(v.z * d, Second))

apply_velocity ==
    /\ Advance("apply_velocity")
    /\ pos' = Integrate(pos, vel, dt)
    /\ tick' = Min(tick + 1, MaxTicks)
    /\ UNCHANGED <<args, vel0, collided, colliders, vel, grounded, ground_height, wish_jump, wish_dir, dt,
                   feet_y, pos0, jumped, residual>>

Next ==
    \/ player_input
    \/ ground_check
    \/ player_movement
    \/ apply_gravity
    \/ floor_clamp
    \/ slope_pass
    \/ wall_pass
    \/ apply_velocity

-----------------------------------------------------------------------------
(* Collider sets and the player states a run starts from *)

LevelEmpty == <<GroundPlane>>
\* A stair step as in spawn_test_level (0.3 thick), top at 0.55 and at 0.8.
LevelStep55 == <<GroundPlane, FloorBox(V3(0, 400, 0), V3(4000, 150, 1250))>>
LevelStep80 == <<GroundPlane, FloorBox(V3(0, 650, 0), V3(4000, 150, 1250))>>
\* A pillar of spawn_test_level: wall body and its floor top.
LevelPillar ==
    <<GroundPlane, WallBox(V3(3000, 1500, 0), V3(1000, 1500, 1000)),
      FloorBox(V3(3000, 3000, 0), V3(1000, 100, 1000))>>
\* An arena corner: a wall along X and a wall along Z.
LevelCorner ==
    <<GroundPlane, WallBox(V3(0, 4000, -5000), V3(5000, 4000, 250)),
      WallBox(V3(5000, 4000, 0), V3(250, 4000, 5000))>>
\* Two showcase cubes (half 1.25) standing 3.0 apart: their footprints, widened
\* by the player radius, share the strip 1.35 < x < 1.65.
LevelTwin ==
    <<GroundPlane, WallBox(V3(0, 1500, 0), V3(1250, 1250, 1250)),
      WallBox(V3(3000, 1500, 0), V3(1250, 1250, 1250))>>
\* The first ramp of spawn_test_level, moved to the origin.
LevelRamp == <<GroundPlane, RampZ(V3(0, 0, 0), V3(3000, 1500, 7500), 200)>>

Standing == player_height \div 2

Starts(cs, xs, ys, zs, vs) ==
    {[colliders |-> cs, pos |-> V3(x, y, z), vel |-> v] : x \in xs, y \in ys, z \in zs, v \in vs}

Scenarios ==
    Starts(LevelEmpty, {0}, {Standing, Standing + 1000}, {0}, {Zero3, V3(0, 0, -7500)})
    \cup Starts(LevelStep55, {0}, {Standing, Standing + 550, Standing + 1000}, {0, 1500},
                {Zero3, V3(0, -3000, 0)})
    \cup Starts(LevelStep80, {0}, {Standing, Standing + 800, Standing + 1000}, {0, 1500},
                {Zero3, V3(0, -3000, 0)})
    \cup Starts(LevelPillar, {1500, 1700, 2500}, {Standing}, {0, 300, 1300},
                {Zero3, V3(7500, 0, 0)})
    \cup Starts(LevelCorner, {4000, 4500}, {Standing}, {-4500, -4000},
                {V3(7500, 0, -7500), V3(20000, 0, -3000)})
    \cup Starts(LevelTwin, {1500}, {Standing}, {2200, 300}, {Zero3, V3(0, 0, -7500)})
    \cup Starts(LevelRamp, {0, 3300}, {Standing, Standing + 1500}, {0, 5000},
                {Zero3, V3(-7500, 0, 0)})

Init ==
    /\ \E s \in Scenarios :
          /\ colliders = s.colliders
          /\ pos = s.pos
          /\ vel = s.vel
          /\ pos0 = s.pos
    /\ grounded = FALSE
    /\ ground_height = 0
    /\ wish_jump = FALSE
    /\ wish_dir = V3(0, 0, 0)
    /\ dt = 16
    /\ feet_y = 0
    /\ pc = "player_input"
    /\ tick = 0
    /\ jumped = FALSE
    /\ residual = FALSE
    /\ steps = <<>>
    /\ collided = FALSE
    /\ args = DefaultArgs
    /\ vel0 = Zero3

Spec == Init /\ [][Next]_vars

-----------------------------------------------------------------------------
(* Hopping runs: the player stays over one spot of a horizontal floor, no
   movement key is ever pressed, and the frames go on for ever. *)

\* Frame times of a hopping run, in milliseconds: 20 and 10 frames a second.
HopDtSet == {50, 100}

\* player_input with only the jump key in play: wish_dir stays zero and
\* wish_jump = keyboard.pressed(KeyCode::Space).
player_input_jump_key ==
    /\ pc = "player_input"
    /\ pc' = NextSystem("player_input")
    /\ steps' = <<"player_input">>
    /\ wish_dir' = Zero3
    /\ wish_jump' \in BOOLEAN
    /\ dt' \in HopDtSet
    /\ pos0' = pos
    /\ jumped' = FALSE
    /\ collided' = FALSE
    /\ UNCHANGED <<args, vel0, colliders, pos, vel, grounded, ground_height, feet_y, tick,
                   residual>>

NextHop ==
    \/ player_input_jump_key
    \/ ground_check
    \/ player_movement
    \/ apply_gravity
    \/ floor_clamp
    \/ slope_pass
    \/ wall_pass
    \/ apply_velocity

\* Standing on the ground plane or on the stair step, or dropping onto them.
HopScenarios ==
    Starts(LevelEmpty, {0}, {Standing, Standing + 1000}, {0}, {Zero3})
    \cup Starts(LevelStep55, {0}, {Standing + 550}, {0}, {Zero3})

InitHop ==
    /\ \E s \in HopScenarios :
          /\ colliders = s.colliders
          /\ pos = s.pos
          /\ vel = s.vel
          /\ pos0 = s.pos
    /\ grounded = FALSE
    /\ ground_height = 0
    /\ wish_jump = FALSE
    /\ wish_dir = Zero3
    /\ dt = 16
    /\ feet_y = 0
    /\ pc = "player_input"
    /\ tick = 0
    /\ jumped = FALSE
    /\ residual = FALSE
    /\ steps = <<>>
    /\ collided = FALSE
    /\ args = DefaultArgs
    /\ vel0 = Zero3

\* Update runs every frame, so the chain never stops being scheduled.
SpecHop == InitHop /\ [][NextHop]_vars /\ WF_vars(NextHop)

-----------------------------------------------------------------------------
(* Contact frames: one frame of the chain, from ground_check to
   apply_velocity, begun in any of many placements of the player in and
   around floors, stairs, ramps and walls. *)

\* No collider at all.
LevelNone == <<>>
\* A ramp like the first one of spawn_test_level, long enough for a point 10
\* units up the rise from its center.
LevelLongRamp == <<GroundPlane, RampZ(V3(0, 0, 0), V3(3000, 1500, 12000), 200)>>
\* Floor boxes whose tops are below and at the baseline.
LevelSunken ==
    <<GroundPlane, FloorBox(V3(0, -400, 0), V3(2000, 150, 2000)),
      FloorBox(V3(5000, -150, 0), V3(2000, 150, 2000))>>
\* The first three stair steps of spawn_test_level (tops 0.4, 0.95, 1.5); the
\* widened footprints of neighbours share a strip 0.3 deep.
LevelStairs ==
    <<GroundPlane, FloorBox(V3(0, 250, 8000), V3(4000, 150, 1250)),
      FloorBox(V3(0, 800, 11000), V3(4000, 150, 1250)),
      FloorBox(V3(0, 1350, 14000), V3(4000, 150, 1250))>>
\* The same steps spawned from the top one down.
LevelStairsDown ==
    <<FloorBox(V3(0, 1350, 14000), V3(4000, 150, 1250)),
      FloorBox(V3(0, 800, 11000), V3(4000, 150, 1250)),
      FloorBox(V3(0, 250, 8000), V3(4000, 150, 1250)), GroundPlane>>

\* The first ramp of spawn_test_level and the raised platform it leads to, both
\* moved by (-40, 0, -15.5): the widened footprints overlap for -3.4 < x < 0.4
\* and 4.1 < z < 7.9, where the ramp surface (2.32 to 3.08) is below the
\* platform top 3.25.
LevelRampLanding ==
    <<GroundPlane, RampZ(V3(0, 0, 0), V3(3000, 1500, 7500), 200),
      FloorBox(V3(-10000, 3000, 14500), V3(10000, 250, 10000))>>

\* Vertical velocities around the grounded threshold, falling and rising, and
\* horizontal ones towards either side on both axes.
ContactVelocities ==
    {Zero3, V3(0, -3000, 0), V3(0, 100, 0), V3(0, 200, 0), V3(3000, 5000, -3000),
     V3(-3000, 0, 3000)}

ContactScenarios ==
    Starts(LevelNone, {0}, {Standing - 300, Standing, Standing + 100, Standing + 1000}, {0},
           ContactVelocities)
    \cup Starts(LevelLongRamp, {0, 3300}, {Standing, Standing + 2500, Standing + 3500,
                Standing + 3600, Standing + 3700}, {-12300, 0, 10000}, ContactVelocities)
    \cup Starts(LevelSunken, {0, 5000}, {Standing - 300, Standing, Standing + 1000}, {0},
                ContactVelocities)
    \cup Starts(LevelStairs, {0}, {Standing, Standing + 400, Standing + 950, Standing + 2000},
                {8000, 9500, 11000, 12500}, ContactVelocities)
    \cup Starts(LevelStairsDown, {0}, {Standing, Standing + 400, Standing + 950, Standing + 2000},
                {8000, 9500, 11000, 12500}, ContactVelocities)
    \cup Starts(LevelPillar, {1500, 1700, 2500, 3000}, {Standing, Standing + 3100, Standing + 3500},
                {0, 300, 1300}, ContactVelocities)
    \cup Starts(LevelTwin, {1500}, {Standing, Standing + 3000}, {300, 2200}, ContactVelocities)
    \cup Starts(LevelRamp, {-3300, -1000, 0, 2900, 3300}, {Standing - 500, Standing, Standing + 500,
                Standing + 1000, Standing + 1500, Standing + 2600}, {-7800, 0, 5000, 7800},
                ContactVelocities)
    \cup Starts(LevelRamp, {0}, {Standing - 1000}, {-7800}, ContactVelocities)
    \cup Starts(LevelRamp, {0, 3300}, {Standing + 800}, {0}, ContactVelocities)
    \cup Starts(LevelRampLanding, {-1500}, {Standing + 2351, Standing + 2952, Standing + 3250},
                {5000, 7260}, ContactVelocities)
    \cup Starts(LevelPillar, {4300}, {Standing}, {0}, ContactVelocities)

\* The state player_input leaves behind, the frame's inputs already sampled.
InitContact ==
    /\ \E s \in ContactScenarios :
          /\ colliders = s.colliders
          /\ pos = s.pos
          /\ vel = s.vel
          /\ pos0 = s.pos
    /\ grounded \in BOOLEAN
    /\ ground_height = 0
    /\ wish_jump \in BOOLEAN
    /\ wish_dir \in {Zero3, V3(Unit, 0, 0)}
    /\ dt \in DtSet
    /\ feet_y = 0
    /\ pc = "ground_check"
    /\ tick = 0
    /\ jumped = FALSE
    /\ residual = FALSE
    /\ steps = <<"player_input">>
    /\ collided = FALSE
    /\ args = DefaultArgs
    /\ vel0 = Zero3

NextContact ==
    \/ ground_check
    \/ player_movement
    \/ apply_gravity
    \/ floor_clamp
    \/ slope_pass
    \/ wall_pass
    \/ apply_velocity

SpecContact == InitContact /\ [][NextContact]_vars

-----------------------------------------------------------------------------
(* Kernel runs: air_accelerate applied again and again to one velocity with a
   constant wish direction, tuning and frame time. *)

\* Applications of the kernel function a run is followed for.
MaxAirSteps == 30

\* Horizontal unit wish directions: the axes and a normalized diagonal.
UnitDirs == {V3(Unit, 0, 0), V3(-Unit, 0, 0), V3(0, 0, -Unit), V3(707, 0, -707)}

\* Tunings: the default, the values of test_bunny_hop_gains_speed's comment
\* (accel 10, wish speed 8), a low cap that the first steps already reach, and
\* a wish speed below the air wish speed cap.
AirArgs ==
    {DefaultArgs,
     [wish_speed |-> 8000, accel |-> 10, air_wishspeed_cap |-> 1500, air_speed_cap |-> 25000],
     [wish_speed |-> 7500, accel |-> 12, air_wishspeed_cap |-> 3000, air_speed_cap |-> 8200],
     [wish_speed |-> 1000, accel |-> 12, air_wishspeed_cap |-> 1500, air_speed_cap |-> 25000]}

\* Velocities handed to air_accelerate: at rest, the tests' values, falling and
\* rising ones, values at and above the default air speed cap.
AirVelocities ==
    {Zero3, V3(0, 0, -8000), V3(0, 0, -5000), V3(5000, -10000, 5000), V3(5000, 0, 5000),
     V3(20000, 0, -15000), V3(0, 3000, -24000), V3(0, 0, -24990), V3(1000, 0, -8000),
     V3(-3000, 0, 4000), V3(30000, 0, 0), V3(0, 0, -30000), V3(26000, 0, 1000)}

KernelInit ==
    /\ colliders = LevelEmpty
    /\ pos = V3(0, Standing + 1000, 0)
    /\ pos0 = V3(0, Standing + 1000, 0)
    /\ grounded = FALSE
    /\ ground_height = 0
    /\ wish_jump = FALSE
    /\ feet_y = 0
    /\ tick = 0
    /\ jumped = FALSE
    /\ residual = FALSE
    /\ steps = <<>>
    /\ collided = FALSE

InitAir ==
    /\ KernelInit
    /\ pc = "air_accelerate"
    /\ vel \in AirVelocities
    /\ vel0 = vel
    /\ wish_dir \in UnitDirs
    /\ dt \in DtSet
    /\ args \in AirArgs

AirStep ==
    /\ pc = "air_accelerate"
    /\ tick < MaxAirSteps
    /\ vel' = air_accelerate(vel, wish_dir, args.wish_speed, args.accel,
                             args.air_wishspeed_cap, args.air_speed_cap, dt)
    /\ tick' = tick + 1
    /\ UNCHANGED <<colliders, pos, grounded, ground_height, wish_jump, wish_dir, dt,
                   feet_y, pc, pos0, jumped, residual, steps, collided, args, vel0>>

NextAir == AirStep

SpecAir == InitAir /\ [][NextAir]_vars

HorizSq(v) == v.x * v.x + v.z * v.z

\* The rounding allowance of a rescaled velocity: two grid points.
Epsilon == Unit \div 500

-----------------------------------------------------------------------------
(* Kernel runs of accelerate, apply_friction and player_movement, with the
   kernel runs of air_accelerate: one function applied again and again to one
   velocity with constant arguments, frame after frame. *)

\* Applications of a kernel function that are counted; later ones go on
\* uncounted.
MaxKernelSteps == 2

\* Wish directions the interface supplies: none, or a horizontal unit vector.
KernelDirs == UnitDirs \cup {Zero3}

\* wish_speed and accel: the call in player_movement, the tests' values, a
\* strong and a weak acceleration.
GroundArgs ==
    {[wish_speed |-> sv_maxspeed, accel |-> sv_accelerate],
     [wish_speed |-> 8000, accel |-> 10],
     [wish_speed |-> sv_maxspeed, accel |-> 100],
     [wish_speed |-> 2000, accel |-> 1]}

\* Velocities handed to accelerate: at rest; along, against and across the wish
\* directions, below, at and above the wish speeds; with a vertical part.
GroundVelocities ==
    {Zero3, V3(0, 0, -8000), V3(0, 0, -15000), V3(0, 0, -5000), V3(0, 0, 7500),
     V3(0, 0, -1999), V3(3000, 0, 0), V3(-7500, 0, 0), V3(1500, 0, 0),
     V3(3535, 0, -3535), V3(5303, 0, -5303), V3(-1414, 0, 1414), V3(7071, 0, -7071),
     V3(5000, 2000, 5000), V3(3000, -4000, -9000), V3(0, 6200, -7500)}

InitGround ==
    /\ KernelInit
    /\ pc = "accelerate"
    /\ vel \in GroundVelocities
    /\ vel0 = vel
    /\ wish_dir \in KernelDirs
    /\ dt \in DtSet
    /\ args \in GroundArgs

AccelStep ==
    /\ pc = "accelerate"
    /\ vel' = accelerate(vel, wish_dir, args.wish_speed, args.accel, dt)
    /\ tick' = Min(tick + 1, MaxKernelSteps)
    /\ UNCHANGED <<colliders, pos, grounded, ground_height, wish_jump, wish_dir, dt,
                   feet_y, pc, pos0, jumped, residual, steps, collided, args, vel0>>

\* friction and stop_speed: the call in player_movement, the tests' values, no
\* friction at all, and a friction that stops any speed within one slow frame.
FrictionArgs ==
    {[friction |-> sv_friction, stop_speed |-> sv_stopspeed],
     [friction |-> 6, stop_speed |-> 2500],
     [friction |-> 0, stop_speed |-> sv_stopspeed],
     [friction |-> 20, stop_speed |-> sv_stopspeed]}

\* Velocities handed to apply_friction: at rest, below and just below 0.1, at
\* 0.1, the tests' values, fast ones, with and without a vertical part.
FrictionVelocities ==
    {Zero3, V3(0, 0, -50), V3(1, 0, 0), V3(70, 0, 71), V3(57, 57, 57), V3(60, 0, -80),
     V3(0, 0, 100), V3(0, 0, -8000), V3(3000, 0, -4000), V3(-7500, 0, 0),
     V3(5303, 0, -5303), V3(200, 0, 100), V3(3000, -4000, -9000), V3(0, -6000, 0),
     V3(-1000, 0, 1500)}

InitFriction ==
    /\ KernelInit
    /\ pc = "apply_friction"
    /\ vel \in FrictionVelocities
    /\ vel0 = vel
    /\ wish_dir = Zero3
    /\ dt \in DtSet
    /\ args \in FrictionArgs

FrictionStep ==
    /\ pc = "apply_friction"
    /\ vel' = apply_friction(vel, args.friction, args.stop_speed, dt)
    /\ tick' = Min(tick + 1, MaxKernelSteps)
    /\ UNCHANGED <<colliders, pos, grounded, ground_height, wish_jump, wish_dir, dt,
                   feet_y, pc, pos0, jumped, residual, steps, collided, args, vel0>>

\* Velocities player_movement finds: at rest, walking, falling, rising, fast.
MovementVelocities ==
    {Zero3, V3(0, 0, -7500), V3(3000, -4000, 0), V3(0, 5000, -8000), V3(20000, -3000, -15000),
     V3(0, 90, 0), V3(40, 0, 30)}

\* One player_movement from any state ground_check can leave behind.
InitMovement ==
    /\ colliders = LevelEmpty
    /\ pos = V3(0, Standing, 0)
    /\ pos0 = V3(0, Standing, 0)
    /\ grounded \in BOOLEAN
    /\ ground_height = 0
    /\ wish_jump \in BOOLEAN
    /\ feet_y = 0
    /\ tick = 0
    /\ jumped = FALSE
    /\ residual = FALSE
    /\ steps = <<"player_input", "ground_check">>
    /\ collided = FALSE
    /\ pc = "player_movement"
    /\ vel \in MovementVelocities
    /\ vel0 = vel
    /\ wish_dir \in KernelDirs
    /\ dt \in DtSet
    /\ args = DefaultArgs

InitKernel == InitAir \/ InitGround \/ InitFriction \/ InitMovement

NextKernel ==
    \/ AirStep
    \/ AccelStep
    \/ FrictionStep
    \/ player_movement

\* player_movement runs in every frame, so a run of accelerate goes on for as
\* long as the game runs.
SpecKernel == InitKernel /\ [][NextKernel]_vars /\ WF_vars(AccelStep)

-----------------------------------------------------------------------------
(* Stopping runs: apply_friction applied again and again, and the frame chain
   of a player who was moving when every key was released. *)

\* player_input with no key down, in a run of constant frame time.
player_input_idle ==
    /\ pc = "player_input"
    /\ pc' = NextSystem("player_input")
    /\ steps' = <<"player_input">>
    /\ wish_dir' = Zero3
    /\ wish_jump' = FALSE
    /\ pos0' = pos
    /\ jumped' = FALSE
    /\ collided' = FALSE
    /\ UNCHANGED <<args, vel0, colliders, pos, vel, grounded, ground_height, dt, feet_y, tick,
                   residual>>

\* Horizontal velocities at the moment the keys are released: walking, at the
\* run speed, after a bunny hop, slow and below the snap speed.
CoastVelocities ==
    {V3(0, 0, -7500), V3(3000, 0, -4000), V3(200, 0, 100), V3(40, 0, 30), V3(-7500, 0, 0),
     V3(12000, 0, -9000), V3(7500, 0, 0)}

\* On the ground plane, on a stair step whose edge the player may slide over,
\* and in front of the pillar.
CoastScenarios ==
    Starts(LevelEmpty, {0}, {Standing}, {0}, CoastVelocities)
    \cup Starts(LevelStep55, {0}, {Standing + 550}, {-1000}, CoastVelocities)
    \cup Starts(LevelPillar, {0}, {Standing}, {0}, CoastVelocities)

InitCoast ==
    /\ \E s \in CoastScenarios :
          /\ colliders = s.colliders
          /\ pos = s.pos
          /\ vel = s.vel
          /\ pos0 = s.pos
          /\ vel0 = s.vel
    /\ grounded = FALSE
    /\ ground_height = 0
    /\ wish_jump = FALSE
    /\ wish_dir = Zero3
    /\ dt \in DtSet
    /\ feet_y = 0
    /\ pc = "player_input"
    /\ tick = 0
    /\ jumped = FALSE
    /\ residual = FALSE
    /\ steps = <<>>
    /\ collided = FALSE
    /\ args = DefaultArgs

InitStop == InitFriction \/ InitCoast

NextStop ==
    \/ FrictionStep
    \/ player_input_idle
    \/ ground_check
    \/ player_movement
    \/ apply_gravity
    \/ floor_clamp
    \/ slope_pass
    \/ wall_pass
    \/ apply_velocity

\* Update runs every frame, and with it apply_friction of a grounded player.
SpecStop == InitStop /\ [][NextStop]_vars /\ WF_vars(NextStop)

-----------------------------------------------------------------------------
(* Falling runs: the frame chain of an airborne player with no floor volume
   under it, no key down, the frame time constant. *)

\* Heights of the feet above the baseline: inside the grounded tolerance, just
\* above it, and one and five units up.
FallHeights == {Standing + 50, Standing + 150, Standing + 1000, Standing + 5000}

\* At rest, falling slowly and fast, rising just above the grounded threshold,
\* by one and two frames of gravity, at the jump speed, and drifting sideways.
FallVelocities ==
    {Zero3, V3(0, -3000, 0), V3(0, -20000, 0), V3(0, 150, 0), V3(0, 192, 0), V3(0, 384, 0),
     V3(0, 1200, 0), V3(0, 6200, 0), V3(3000, -1000, -4000)}

\* Over nothing at all, over the bare ground plane, and beside the pillar.
FallScenarios ==
    {s \in Starts(LevelNone, {0}, FallHeights, {0}, FallVelocities)
            \cup Starts(LevelEmpty, {0}, {Standing + 1000}, {0}, {Zero3, V3(0, 6200, 0)})
            \cup Starts(LevelPillar, {-5000}, {Standing + 50, Standing + 1000}, {0},
                        {V3(0, 192, 0), V3(3000, -1000, -4000)}) :
        ~IsGrounded(s.pos, s.vel, 0)}

InitFall ==
    /\ \E s \in FallScenarios :
          /\ colliders = s.colliders
          /\ pos = s.pos
          /\ vel = s.vel
          /\ pos0 = s.pos
          /\ vel0 = s.vel
    /\ grounded = FALSE
    /\ ground_height = 0
    /\ wish_jump = FALSE
    /\ wish_dir = Zero3
    /\ dt \in DtSet
    /\ feet_y = 0
    /\ pc = "player_input"
    /\ tick = 0
    /\ jumped = FALSE
    /\ residual = FALSE
    /\ steps = <<>>
    /\ collided = FALSE
    /\ args = DefaultArgs

NextFall ==
    \/ player_input_idle
    \/ ground_check
    \/ player_movement
    \/ apply_gravity
    \/ floor_clamp
    \/ slope_pass
    \/ wall_pass
    \/ apply_velocity

\* Update runs every frame.
SpecFall == InitFall /\ [][NextFall]_vars /\ WF_vars(NextFall)

-----------------------------------------------------------------------------
(* Wall runs: a few frames of a player heading along +X for the near face of
   the only wall of the level, the frame time constant. *)

\* The east wall of the arena (0.5 thick), the arena scaled down.
LevelEastWall == <<GroundPlane, WallBox(V3(5000, 4000, 0), V3(250, 4000, 5000))>>

\* player_input with the keys for +X and for jumping in play.
player_input_forward ==
    /\ tick < MaxTicks
    /\ pc = "player_input"
    /\ pc' = NextSystem("player_input")
    /\ steps' = <<"player_input">>
    /\ wish_dir' \in {Zero3, V3(Unit, 0, 0)}
    /\ wish_jump' \in BOOLEAN
    /\ pos0' = pos
    /\ jumped' = FALSE
    /\ collided' = FALSE
    /\ UNCHANGED <<args, vel0, colliders, pos, vel, grounded, ground_height, dt, feet_y, tick,
                   residual>>

\* Towards the wall: walking, at the run speed, after bunny hops, and at the
\* air speed cap.
WallVelocities == {V3(3000, 0, 0), V3(7500, 0, 0), V3(20000, 0, 0), V3(25000, 0, 0)}

\* On the ground and in the air, to the left of the widened footprint of the
\* east wall (x < 4.35) and of the pillar (x < 1.6).
WallScenarios ==
    Starts(LevelEastWall, {4000, 4320}, {Standing, Standing + 1000}, {0}, WallVelocities)
    \cup Starts(LevelPillar, {1000, 1500}, {Standing, Standing + 1000}, {0}, WallVelocities)

InitWall ==
    /\ \E s \in WallScenarios :
          /\ colliders = s.colliders
          /\ pos = s.pos
          /\ vel = s.vel
          /\ pos0 = s.pos
          /\ vel0 = s.vel
    /\ grounded = FALSE
    /\ ground_height = 0
    /\ wish_jump = FALSE
    /\ wish_dir = Zero3
    /\ dt \in DtSet
    /\ feet_y = 0
    /\ pc = "player_input"
    /\ tick = 0
    /\ jumped = FALSE
    /\ residual = FALSE
    /\ steps = <<>>
    /\ collided = FALSE
    /\ args = DefaultArgs

NextWall ==
    \/ player_input_forward
    \/ ground_check
    \/ player_movement
    \/ apply_gravity
    \/ floor_clamp
    \/ slope_pass
    \/ wall_pass
    \/ apply_velocity

SpecWall == InitWall /\ [][NextWall]_vars

-----------------------------------------------------------------------------
(* Bunny-hop runs: a few frames of a player who comes down on a horizontal
   floor with horizontal speed, the jump key either down in every frame of the
   run or up in every frame, the frame time constant. *)

\* player_input with the movement keys in play and the jump key as it was in
\* the frame before: wish_jump = keyboard.pressed(KeyCode::Space).
player_input_key_kept ==
    /\ tick < MaxTicks
    /\ pc = "player_input"
    /\ pc' = NextSystem("player_input")
    /\ steps' = <<"player_input">>
    /\ wish_dir' \in WishDirs
    /\ wish_jump' = wish_jump
    /\ pos0' = pos
    /\ jumped' = FALSE
    /\ collided' = FALSE
    /\ UNCHANGED <<args, vel0, colliders, pos, vel, grounded, ground_height, dt, feet_y, tick,
                   residual>>

\* At the run speed, faster than it after a chain of hops, coming down steeply
\* and slowly, and rising just above the grounded threshold.
BhopVelocities ==
    {V3(0, 0, -7500), V3(9000, -3000, 0), V3(3000, -1000, -4000), V3(-7500, 150, 0)}

\* Standing on, just above, and a little higher above the ground plane and the
\* stair step.
BhopScenarios ==
    Starts(LevelEmpty, {0}, {Standing, Standing + 150, Standing + 400}, {0}, BhopVelocities)
    \cup Starts(LevelStep55, {0}, {Standing + 550, Standing + 700}, {0}, BhopVelocities)

InitBhop ==
    /\ \E s \in BhopScenarios :
          /\ colliders = s.colliders
          /\ pos = s.pos
          /\ vel = s.vel
          /\ pos0 = s.pos
          /\ vel0 = s.vel
    /\ grounded = FALSE
    /\ ground_height = 0
    /\ wish_jump \in BOOLEAN
    /\ wish_dir = Zero3
    /\ dt \in DtSet
    /\ feet_y = 0
    /\ pc = "player_input"
    /\ tick = 0
    /\ jumped = FALSE
    /\ residual = FALSE
    /\ steps = <<>>
    /\ collided = FALSE
    /\ args = DefaultArgs

NextBhop ==
    \/ player_input_key_kept
    \/ ground_check
    \/ player_movement
    \/ apply_gravity
    \/ floor_clamp
    \/ slope_pass
    \/ wall_pass
    \/ apply_velocity

SpecBhop == InitBhop /\ [][NextBhop]_vars

-----------------------------------------------------------------------------
(* Properties of air_accelerate, under SpecAir *)

\* C1: after any number of air_accelerate applications to any input velocity,
\* the horizontal speed is at most air_speed_cap (+ epsilon).
C1_AirSpeedCapAnyInput ==
    (pc = "air_accelerate" /\ tick >= 1)
        => HorizSq(vel) <= (args.air_speed_cap + Epsilon) * (args.air_speed_cap + Epsilon)

\* The wish direction is perpendicular to the horizontal velocity v.
Perpendicular(v, d) == v.x * d.x + v.z * d.z = 0

\* C5: from a horizontal speed below air_speed_cap and a wish direction
\* perpendicular to the velocity, one or more air_accelerate applications leave
\* the horizontal speed strictly greater than the initial one (so also after 30
\* applications from (0,0,-8) with wish direction (1,0,0) and the default tuning).
C5_AirStrafeGainsSpeed ==
    (/\ pc = "air_accelerate"
     /\ tick >= 1
     /\ Perpendicular(vel0, wish_dir)
     /\ HorizSq(vel0) < args.air_speed_cap * args.air_speed_cap)
        => HorizSq(vel) > HorizSq(vel0)

\* The bunny hop scenario has run its 30 applications.
C5_Witness ==
    /\ pc = "air_accelerate"
    /\ tick = 30
    /\ vel0 = V3(0, 0, -8000)
    /\ wish_dir = V3(Unit, 0, 0)
    /\ args = DefaultArgs
    /\ dt = 16
    /\ HorizSq(vel) > 8000 * 8000

-----------------------------------------------------------------------------
(* Properties of the frame chain, under Spec *)

\* ground_check has just run: pos and vel are the ones it read.
AfterGroundCheck == pc = "player_movement"

\* How far the top of floor c is above the player's feet.
RiseAboveFeet(c) == FloorTop(c, pos) - FeetY(pos)

\* C2: after ground_check, a floor under the player whose top is at most
\* max_step_up (0.6) above the feet is accepted (ground_height is at least its
\* top), and a floor whose top is 0.8 above the feet does not become
\* ground_height (the feet are below that top, so the player is not above it).
C2_StepUpLimit ==
    AfterGroundCheck =>
        \A i \in 1..Len(colliders) :
            (IsFloor(colliders[i]) /\ InFootprint(pos, colliders[i])) =>
                /\ RiseAboveFeet(colliders[i]) <= max_step_up
                       => ground_height >= FloorTop(colliders[i], pos)
                /\ RiseAboveFeet(colliders[i]) = 800
                       => ground_height # FloorTop(colliders[i], pos)

\* A frame has just ended in which the player jumped from the baseline with
\* dt = 0.1 and player_collision changed nothing.
JumpFrameEnded ==
    /\ pc = "player_input"
    /\ tick >= 1
    /\ jumped
    /\ dt = 100
    /\ ground_height = 0
    /\ ~collided

\* C3 as stated: the jump sets velocity.y to 6.2, and at the end of that frame
\* velocity.y is 5.0 and position.y is about 0.62 higher (within 0.02).
C3_JumpArcAsStated ==
    /\ (pc = "apply_gravity" /\ jumped) => vel.y = sv_jumpspeed
    /\ JumpFrameEnded => (vel.y = 5000 /\ Abs((pos.y - pos0.y) - 620) <= 20)

\* C3 amended: the jump sets velocity.y to 6.2; gravity of the same frame makes
\* it 5.0 before the position is integrated, so position.y rises by
\* 5.0 * 0.1 = 0.5 in that frame.
C3_JumpArc ==
    /\ (pc = "apply_gravity" /\ jumped) => vel.y = sv_jumpspeed
    /\ JumpFrameEnded => (vel.y = 5000 /\ pos.y - pos0.y = 500)

C3_Witness == JumpFrameEnded /\ vel.y = 5000 /\ pos.y - pos0.y = 500

\* Indices of the wall-tagged colliders, and the one wall_query yields last.
WallIndices == {i \in 1..Len(colliders) : colliders[i].wall}
LastWall == colliders[CHOOSE i \in WallIndices : \A j \in WallIndices : j <= i]

\* C4 as stated: if a wall pass left the player inside a wall footprint, after
\* the wall pass of the next frame the player is inside no wall footprint.
C4_ResidualOneTickAsStated ==
    [][(pc = "wall_pass" /\ residual) => ~InsideAWall(colliders, pos')]_vars

\* C4 amended: a wall pass may leave the player inside the footprint of a wall
\* processed earlier, on any number of successive frames; right after every
\* wall pass the player is outside the footprint of the wall processed last.
C4_LastWallResolved ==
    (pc = "apply_velocity" /\ WallIndices # {}) => ~InFootprint(pos, LastWall)

\* A second wall pass in a row has left the player inside a wall footprint.
C4_Witness ==
    /\ pc = "apply_velocity"
    /\ tick >= 1
    /\ Cardinality(WallIndices) = 2
    /\ residual
    /\ ~InFootprint(pos, LastWall)

\* The level has one wall and the player is inside its footprint.
InsideTheOnlyWall == Cardinality(WallIndices) = 1 /\ InFootprint(pos, LastWall)

\* Coordinate `after` lies on the side of `center` that `before` was on.
SameSide(before, after, center) ==
    /\ before > center => after > center
    /\ before < center => after < center

ResolvedOnX(p, q, w) ==
    /\ Abs(q.x - w.pos.x) = w.half.x + player_radius
    /\ SameSide(p.x, q.x, w.pos.x)
    /\ q.z = p.z

ResolvedOnZ(p, q, w) ==
    /\ Abs(q.z - w.pos.z) = w.half.z + player_radius
    /\ SameSide(p.z, q.z, w.pos.z)
    /\ q.x = p.x

\* C6: a wall pass that finds the player inside the footprint of the only wall
\* puts the coordinate of the axis with the smaller penetration at exactly
\* half_extent + player_radius from the wall center, on the player's side,
\* keeps the other horizontal coordinate, and leaves the player outside the
\* footprint.
C6_WallPushOut ==
    [][(pc = "wall_pass" /\ InsideTheOnlyWall) =>
          /\ PenX(pos, LastWall) < PenZ(pos, LastWall) => ResolvedOnX(pos, pos', LastWall)
          /\ PenZ(pos, LastWall) < PenX(pos, LastWall) => ResolvedOnZ(pos, pos', LastWall)
          /\ ResolvedOnX(pos, pos', LastWall) \/ ResolvedOnZ(pos, pos', LastWall)
          /\ ~InFootprint(pos', LastWall)]_vars

\* The wall pass has just put the player on an edge of the only wall's footprint.
C6_Witness ==
    /\ pc = "apply_velocity"
    /\ collided
    /\ Cardinality(WallIndices) = 1
    /\ Abs(pos.z - LastWall.pos.z) < LastWall.half.z + player_radius
    /\ Abs(pos.x - LastWall.pos.x) = LastWall.half.x + player_radius

\* C7: after ground_check, grounded holds exactly when the feet are at most 0.1
\* above the ground_height of that step and velocity.y is at most 0.1; a player
\* rising faster than 0.1 is not grounded.
C7_GroundedCriterion ==
    AfterGroundCheck =>
        /\ ground_height = GroundHeight(colliders, pos)
        /\ grounded <=> (FeetY(pos) <= ground_height + 100 /\ vel.y <= 100)
        /\ vel.y > 100 => ~grounded

\* The feet are within the tolerance and only the rising velocity keeps the
\* player from being grounded.
C7_Witness ==
    /\ AfterGroundCheck
    /\ FeetY(pos) <= ground_height + 100
    /\ vel.y > 100
    /\ ~grounded

\* The order of the steps of a frame.
FrameOrder ==
    <<"player_input", "ground_check", "player_movement", "apply_gravity",
      "floor_clamp", "slope_pass", "wall_pass", "apply_velocity">>

\* C9: the steps of a frame run in the order input, ground resolver,
\* locomotion, gravity, floor clamp, slope pass, wall pass, integration, each
\* once: the steps run so far are always the first steps of that order, and a
\* finished frame has run them all.
C9_PipelineOrder ==
    /\ Len(steps) <= Len(FrameOrder)
    /\ steps = SubSeq(FrameOrder, 1, Len(steps))
    /\ (pc = "player_input" /\ tick >= 1) => steps = FrameOrder
    /\ (pc # "player_input") => FrameOrder[Len(steps) + 1] = pc

\* A frame has run to its end.
C9_Witness == pc = "player_input" /\ tick >= 2 /\ steps = FrameOrder /\ collided

\* C10: the floor clamp sets position.y to ground_height + player_height/2 and
\* zeroes a negative velocity.y when the feet are below ground_height, changes
\* nothing otherwise, and never touches the x and z of position and velocity.
C10_FloorClamp ==
    [][pc = "floor_clamp" =>
          /\ FeetY(pos) < ground_height =>
                /\ pos'.y = ground_height + player_height \div 2
                /\ vel'.y = IF vel.y < 0 THEN 0 ELSE vel.y
          /\ FeetY(pos) >= ground_height => (pos' = pos /\ vel' = vel)
          /\ pos'.x = pos.x /\ pos'.z = pos.z
          /\ vel'.x = vel.x /\ vel'.z = vel.z]_vars

\* The clamp has just lifted a player who had upward velocity and kept it.
C10_Witness ==
    /\ pc = "slope_pass"
    /\ feet_y < ground_height
    /\ pos.y = ground_height + player_height \div 2
    /\ vel.y > 0

-----------------------------------------------------------------------------
(* Properties of the hopping runs, under SpecHop *)

\* The movement step of this frame has just made the player jump.
JumpStarted == pc = "apply_gravity" /\ jumped

\* The jump key is down in every frame from some frame on.
JumpKeyHeld == <>[]wish_jump

\* C8: when ground_check has marked the player grounded and wish_jump is true,
\* player_movement of that frame sets velocity.y to sv_jumpspeed and grounded
\* to false; and if the jump key stays down from some frame on, over a
\* horizontal floor, the player jumps again and again, for ever, wish_jump
\* never having been false in between.
C8_JumpAndAutoRepeat ==
    /\ [][(pc = "player_movement" /\ grounded /\ wish_jump)
            => (vel'.y = sv_jumpspeed /\ ~grounded' /\ jumped')]_vars
    /\ [][(pc = "player_movement" /\ ~(grounded /\ wish_jump))
            => (vel'.y = vel.y /\ grounded' = grounded /\ ~jumped')]_vars
    /\ (JumpKeyHeld => []<>JumpStarted)

\* A jump in the frame of a landing, after at least two frames: the frame
\* before ended with the feet below the floor top, the key is down, and this
\* frame's movement step has jumped.
C8_Witness ==
    /\ JumpStarted
    /\ tick >= 2
    /\ wish_jump
    /\ vel.y = sv_jumpspeed
    /\ ~grounded
    /\ pos0.y < Standing + ground_height

-----------------------------------------------------------------------------
(* Properties of the kernel runs, under SpecKernel *)

\* v is horizontal and parallel or antiparallel to the horizontal direction d.
Collinear(v, d) == v.y = 0 /\ v.x * d.z - v.z * d.x = 0

\* A run of accelerate from a velocity collinear with the unit wish direction
\* and no faster than the wish speed.
GroundRun ==
    /\ pc = "accelerate"
    /\ NonZero(wish_dir)
    /\ Collinear(vel0, wish_dir)
    /\ HorizSq(vel0) <= args.wish_speed * args.wish_speed

\* |v| <= W + epsilon, and |v| >= W - epsilon.
WithinWishSpeed == Len3Sq(vel) <= (args.wish_speed + Epsilon) * (args.wish_speed + Epsilon)
AtWishSpeed == Len3Sq(vel) >= (args.wish_speed - Epsilon) * (args.wish_speed - Epsilon)

\* The run of accelerate is at the wish speed, within epsilon on both sides.
Saturated == pc = "accelerate" /\ AtWishSpeed /\ WithinWishSpeed

\* C11: from a velocity collinear with a constant unit wish_dir and of speed at
\* most W, accelerate with wish_speed W, applied any number of times, keeps
\* |v| <= W (+ epsilon); the speed reaches W and stays there from then on.
C11_AccelerateSaturates ==
    /\ [](GroundRun => WithinWishSpeed)
    /\ (GroundRun => <>[]Saturated)

\* A run that began against the wish direction, or at rest, and is now at the
\* wish speed along it.
C11_Witness ==
    /\ GroundRun
    /\ tick >= 1
    /\ Dot(vel0, wish_dir) <= 0
    /\ AtWishSpeed
    /\ Dot(vel, wish_dir) > 0

\* v . wish_dir, exactly, in millionths.
ExactDot(v, d) == v.x * d.x + v.y * d.y + v.z * d.z

\* C12: whenever v . wish_dir >= wish_speed, accelerate returns v unchanged,
\* whatever accel and dt are.
C12_AccelerateIdentityAtCap ==
    [][(pc = "accelerate" /\ ExactDot(vel, wish_dir) >= args.wish_speed * Unit)
          => vel' = vel]_vars

\* accelerate has been applied to a velocity strictly faster along the wish
\* direction than the wish speed, and the velocity is the one the run began with.
C12_Witness ==
    /\ pc = "accelerate"
    /\ tick >= 1
    /\ ExactDot(vel0, wish_dir) > args.wish_speed * Unit
    /\ vel = vel0

\* C13: accelerate and air_accelerate leave velocity.y as it was, for every
\* velocity and every wish direction supplied, also when air_accelerate
\* rescales to the air speed cap; and player_movement changes velocity.y only
\* by the jump, which sets it to sv_jumpspeed.
C13_VerticalIndependence ==
    [][/\ (pc \in {"accelerate", "air_accelerate"}) => vel'.y = vel.y
       /\ (pc = "player_movement")
            => vel'.y = IF grounded /\ wish_jump THEN sv_jumpspeed ELSE vel.y]_vars

\* air_accelerate has rescaled a rising velocity to the air speed cap: the
\* component along the old heading has shrunk, the vertical one has not.
C13_Witness ==
    /\ pc = "air_accelerate"
    /\ tick >= 1
    /\ vel0 = V3(0, 3000, -24000)
    /\ vel.x # 0
    /\ vel.z > vel0.z
    /\ vel.y = vel0.y

\* r is a component of k*v for some 0 <= k <= 1, where a is that component of v.
Shrunk(r, a) == IF a >= 0 THEN 0 <= r /\ r <= a ELSE a <= r /\ r <= 0

\* r and v point the same way, up to half a grid point on each component of r.
Parallel(r, v) ==
    /\ Abs(r.x * v.z - r.z * v.x) <= Abs(v.x) + Abs(v.z)
    /\ Abs(r.x * v.y - r.y * v.x) <= Abs(v.x) + Abs(v.y)
    /\ Abs(r.y * v.z - r.z * v.y) <= Abs(v.y) + Abs(v.z)

\* C14: for every nonzero velocity v and dt > 0, apply_friction returns k*v
\* with 0 <= k <= 1 (same direction, |result| <= |v|), and k = 1 only when
\* friction * max(|v|, stop_speed) * dt = 0.
C14_FrictionOnlyScales ==
    [][(pc = "apply_friction" /\ NonZero(vel))
          => /\ Shrunk(vel'.x, vel.x) /\ Shrunk(vel'.y, vel.y) /\ Shrunk(vel'.z, vel.z)
             /\ Parallel(vel', vel)
             /\ Len3Sq(vel') <= Len3Sq(vel)
             /\ (vel' = vel => args.friction * Max(Len3(vel), args.stop_speed) * dt = 0)]_vars

\* Friction has slowed a diagonal velocity with a vertical part without
\* stopping it: every component is smaller and keeps its sign.
C14_Witness ==
    /\ pc = "apply_friction"
    /\ tick >= 1
    /\ vel0 = V3(3000, -4000, -9000)
    /\ 0 < vel.x /\ vel.x < vel0.x
    /\ vel0.y < vel.y /\ vel.y < 0
    /\ vel0.z < vel.z /\ vel.z < 0

\* |v| < 0.1
BelowSnapSpeed(v) == Len3Sq(v) < friction_snap_speed * friction_snap_speed

\* C15: apply_friction returns exactly the zero vector whenever |v| < 0.1
\* (v = 0 included), for every friction, stop_speed and dt; and the speed it
\* divides by, on the other branch, is never zero.
C15_FrictionZeroSnap ==
    /\ [][(pc = "apply_friction" /\ BelowSnapSpeed(vel)) => vel' = Zero3]_vars
    /\ []((pc = "apply_friction" /\ ~BelowSnapSpeed(vel)) => Len3(vel) > 0)

\* A slow nonzero velocity snapped to zero in a run without friction, where
\* nothing else could have stopped it.
C15_Witness ==
    /\ pc = "apply_friction"
    /\ tick >= 1
    /\ args.friction = 0
    /\ NonZero(vel0)
    /\ BelowSnapSpeed(vel0)
    /\ vel = Zero3

-----------------------------------------------------------------------------
(* Properties of the contact frames, under SpecContact *)

\* Signed distance of p from the center of slope c along its rise direction.
DistanceAlong(c, p) ==
    ((p.x - c.pos.x) * c.direction.x + (p.z - c.pos.z) * c.direction.z) \div Unit

\* The nominal height of slope c: the top of its box at the center.
NominalTop(c) == c.pos.y + c.half.y

\* The player stands on height h: the feet are within the tolerance of it.
StandsAt(h) == Abs(FeetY(pos) - h) <= grounded_tolerance

\* Collider i is the only floor volume whose widened footprint holds the player.
OnlyFloorUnder(i) ==
    \A j \in 1..Len(colliders) :
        (j # i /\ IsFloor(colliders[j])) => ~InFootprint(pos, colliders[j])

\* C16: the slope height is linear, nominal top + (distance along the rise
\* direction from the center) * rise_per_unit; with rise_per_unit 0.2 a player
\* 10 units up the rise from the center, inside the footprint, gets a height 2.0
\* above the nominal top; ground_check reports that height as ground_height for
\* a player standing there, and grounded is true when the feet are within the
\* tolerance of it and the vertical velocity is at most 0.1.  (The slope is the
\* only floor under the player and its surface there is above the baseline 0.)
C16_SlopeWalk ==
    AfterGroundCheck =>
        \A i \in 1..Len(colliders) :
            LET c == colliders[i]
                h == FloorTop(c, pos)
            IN (c.slope /\ InFootprint(pos, c)) =>
                /\ Abs((h - NominalTop(c)) * Unit - DistanceAlong(c, pos) * c.rise_per_unit)
                      <= Unit \div 2
                /\ (c.rise_per_unit = 200 /\ DistanceAlong(c, pos) = 10 * Unit)
                      => h = NominalTop(c) + 2 * Unit
                /\ (StandsAt(h) /\ h > 0 /\ OnlyFloorUnder(i))
                      => /\ ground_height = h
                         /\ grounded <=> vel.y <= 100

\* A player 10 units up the long ramp, feet 0.1 above the surface 2.0 over the
\* nominal top, reported grounded on it.
C16_Witness ==
    /\ AfterGroundCheck
    /\ colliders = LevelLongRamp
    /\ DistanceAlong(colliders[2], pos) = 10 * Unit
    /\ ground_height = NominalTop(colliders[2]) + 2 * Unit
    /\ FeetY(pos) = ground_height + 100
    /\ grounded

\* Heights and vertical velocities of a second player at the same x and z.
OtherHeights == {Standing, Standing + 1500, Standing + 3500}
OtherVerticalSpeeds == {-3000, 0, 6200}

\* The x, z, vx, vz the wall loop leaves a player with, who enters it at the
\* x, z, vx, vz of the state but at height y with vertical velocity vy.
WallPassAt(y, vy) ==
    LET st == WallScan(colliders, 1, [pos |-> [pos EXCEPT !.y = y], vel |-> [vel EXCEPT !.y = vy]])
    IN <<st.pos.x, st.pos.z, st.vel.x, st.vel.z>>

\* Some wall has the player inside its widened footprint, feet above its top.
OverAWall ==
    \E i \in 1..Len(colliders) :
        /\ colliders[i].wall
        /\ InFootprint(pos, colliders[i])
        /\ FeetY(pos) > colliders[i].pos.y + colliders[i].half.y

FloorUnder(i) ==
    /\ ~colliders[i].wall
    /\ ~colliders[i].ground
    /\ InFootprint(pos, colliders[i])

\* C18: after ground_check, ground_height is 0 when no floor volume's footprint
\* contains the player (so also for an empty collider set), ground_height >= 0
\* in every case, and a value other than 0 is the top of a floor volume under
\* the player: never of a wall-tagged volume or of the ground plane, and never
\* a top at or below 0.
C18_BaselineFallback ==
    AfterGroundCheck =>
        /\ ground_height >= 0
        /\ (\A i \in 1..Len(colliders) : ~FloorUnder(i)) => ground_height = 0
        /\ ground_height # 0 =>
              \E i \in 1..Len(colliders) :
                  FloorUnder(i) /\ FloorTop(colliders[i], pos) = ground_height

\* With no collider at all, a player whose feet are below the baseline gets
\* ground_height 0 and is grounded.
C18_Witness ==
    /\ AfterGroundCheck
    /\ colliders = LevelNone
    /\ FeetY(pos) < 0
    /\ ground_height = 0
    /\ grounded

\* The floor_top values of the accepted candidates: floor volumes under the
\* player whose top is at most 0.6 above the feet or strictly below the center.
AcceptedTops ==
    {FloorTop(colliders[i], pos) :
        i \in {j \in 1..Len(colliders) :
                 /\ FloorUnder(j)
                 /\ \/ FloorTop(colliders[j], pos) <= FeetY(pos) + 600
                    \/ FloorTop(colliders[j], pos) < pos.y}}

SetMax(S) == CHOOSE m \in S : \A x \in S : x <= m

Reverse(seq) == [i \in 1..Len(seq) |-> seq[Len(seq) + 1 - i]]

\* C19: after ground_check, ground_height is the maximum of 0 and the
\* floor_top values of all accepted candidates, and so it is the same when the
\* collider set is scanned in the opposite order.
C19_HighestSurfaceWins ==
    AfterGroundCheck =>
        /\ ground_height = SetMax(AcceptedTops \cup {0})
        /\ ground_height = GroundHeight(Reverse(colliders), pos)

\* In the strip shared by two stair steps, both accepted, the higher one is
\* scanned first and is the ground height.
C19_Witness ==
    /\ AfterGroundCheck
    /\ colliders = LevelStairsDown
    /\ Cardinality(AcceptedTops) = 2
    /\ FloorTop(colliders[2], pos) \in AcceptedTops
    /\ FloorTop(colliders[3], pos) \in AcceptedTops
    /\ ground_height = FloorTop(colliders[2], pos)

\* The slopes of the collider set, and the only one when there is just one.
SlopeIndices == {i \in 1..Len(colliders) : colliders[i].slope}
TheSlope == colliders[CHOOSE i \in SlopeIndices : TRUE]

\* Coordinate `after` is on the edge of the widened footprint [center - reach,
\* center + reach], on the side `before` was on (the low side from the center).
OnEdge(before, after, center, reach) ==
    after = IF before > center THEN center + reach ELSE center - reach

\* What the decision rule of the slope pass asks of the step from the state,
\* for the only slope and a player whose feet are at height fy: inside the
\* widened footprint and with slope_bottom - 0.5 < fy < slope_height, nothing
\* below a gap of 0.6, else exactly one of push up, push out on X, push out on Z.
SlopeDecision(fy) ==
    LET c == TheSlope
        gap == FloorTop(c, pos) - fy
        pen_x == c.half.x + player_radius - Abs(pos.x - c.pos.x)
        pen_z == c.half.z + player_radius - Abs(pos.z - c.pos.z)
        up == gap < pen_x /\ gap < pen_z /\ gap < 2000
    IN (/\ pc = "slope_pass"
        /\ Cardinality(SlopeIndices) = 1
        /\ InFootprint(pos, c)
        /\ fy > c.pos.y - c.half.y - 500
        /\ fy < FloorTop(c, pos))
        => /\ gap < 600 => (pos' = pos /\ vel' = vel)
           /\ (gap >= 600 /\ up)
                 => pos' = [pos EXCEPT !.y = FloorTop(c, pos) + player_height \div 2]
           /\ (gap >= 600 /\ ~up /\ pen_x < pen_z)
                 => /\ OnEdge(pos.x, pos'.x, c.pos.x, c.half.x + player_radius)
                    /\ pos'.y = pos.y /\ pos'.z = pos.z
           /\ (gap >= 600 /\ ~up /\ ~(pen_x < pen_z))
                 => /\ OnEdge(pos.z, pos'.z, c.pos.z, c.half.z + player_radius)
                    /\ pos'.y = pos.y /\ pos'.x = pos.x
           /\ gap >= 2000 => pos'.y = pos.y

SlopeDecisionOnEntryFeet == [][SlopeDecision(feet_y)]_vars

\* The states the wall loop goes through: before its first iteration, then
\* after the iteration of each wall-tagged collider, in query order.
RECURSIVE WallTrace(_, _, _)
WallTrace(cs, i, st) ==
    IF i > Len(cs) THEN <<st>>
    ELSE IF cs[i].wall THEN <<st>> \o WallTrace(cs, i + 1, WallResolve(st, cs[i]))
    ELSE WallTrace(cs, i + 1, st)

\* The same for the slope loop, entered with feet_y = fy.
RECURSIVE SlopeTrace(_, _, _, _)
SlopeTrace(cs, i, st, fy) ==
    IF i > Len(cs) THEN <<st>>
    ELSE IF cs[i].slope THEN <<st>> \o SlopeTrace(cs, i + 1, SlopeResolve(st, cs[i], fy), fy)
    ELSE SlopeTrace(cs, i + 1, st, fy)

\* One iteration took the player from a to b.  A push out along +X (-X) is an
\* iteration that raises (lowers) x, and likewise on Z.
PushClampsVelocity(a, b) ==
    /\ b.pos.x > a.pos.x => (b.vel.x = Max(a.vel.x, 0) /\ b.vel.x >= 0 /\ b.vel.z = a.vel.z)
    /\ b.pos.x < a.pos.x => (b.vel.x = Min(a.vel.x, 0) /\ b.vel.x <= 0 /\ b.vel.z = a.vel.z)
    /\ b.pos.z > a.pos.z => (b.vel.z = Max(a.vel.z, 0) /\ b.vel.z >= 0 /\ b.vel.x = a.vel.x)
    /\ b.pos.z < a.pos.z => (b.vel.z = Min(a.vel.z, 0) /\ b.vel.z <= 0 /\ b.vel.x = a.vel.x)

\* Every iteration of the loop whose states are tr obeys PushClampsVelocity,
\* and the loop ends in the state the step ends in.
EveryPushClamps(tr) ==
    /\ tr[Len(tr)] = [pos |-> pos', vel |-> vel']
    /\ \A k \in 1..(Len(tr) - 1) : PushClampsVelocity(tr[k], tr[k + 1])

\* C21: whenever an iteration of the slope loop or of the wall loop pushes the
\* player out along +X (-X, +Z, -Z), the matching velocity component after it
\* is max(old, 0) (min(old, 0)), so it does not point back into the volume,
\* and the velocity component of the other horizontal axis is unchanged.
C21_PushOutClampsVelocity ==
    [][/\ pc = "wall_pass"
            => EveryPushClamps(WallTrace(colliders, 1, [pos |-> pos, vel |-> vel]))
       /\ pc = "slope_pass"
            => EveryPushClamps(SlopeTrace(colliders, 1, [pos |-> pos, vel |-> vel], feet_y))]_vars

\* The wall pass has pushed a rising player, who was moving into the pillar on
\* X and along it on Z, out to the pillar's low X edge: velocity.x is zero and
\* velocity.z is as it was.
C21_Witness ==
    /\ pc = "apply_velocity"
    /\ colliders = LevelPillar
    /\ wish_dir = Zero3
    /\ pos0.x = 1700
    /\ pos.x = colliders[2].pos.x - (colliders[2].half.x + player_radius)
    /\ vel = V3(0, vel.y, -3000)
    /\ vel.y > 0

-----------------------------------------------------------------------------
(* Properties of the stopping runs, under SpecStop *)

\* A run of apply_friction with friction, stop_speed and dt all positive.
Rubbing == pc = "apply_friction" /\ args.friction > 0 /\ args.stop_speed > 0 /\ dt > 0

\* The run of apply_friction is at exactly the zero vector.
Stopped == pc = "apply_friction" /\ vel = Zero3

\* A run of the frame chain, and no key down in it.
Coasting == pc = "player_input"
KeysUp == pc # "apply_friction" /\ wish_dir = Zero3 /\ ~wish_jump

\* The player of the frame chain has no horizontal velocity.
AtRest == pc # "apply_friction" /\ vel.x = 0 /\ vel.z = 0

\* C22: with friction, stop_speed and dt positive, apply_friction applied again
\* and again to any velocity reaches exactly the zero vector and stays there;
\* and a player on the ground with no movement key and no jump key down ends
\* with zero horizontal velocity, for good.
C22_FrictionStops ==
    /\ Rubbing => <>[]Stopped
    /\ (Coasting /\ []KeysUp) => <>[]AtRest

\* A run of apply_friction that began at the run speed has come to exactly
\* zero, under the default friction.
C22_Witness ==
    /\ Stopped
    /\ args.friction = sv_friction
    /\ vel0 = V3(-7500, 0, 0)
    /\ tick >= 1

-----------------------------------------------------------------------------
(* Properties of the falling runs, under SpecFall *)

\* The run begins airborne, and airborne and not rising.
Falling == pc = "player_input" /\ ~IsGrounded(pos, vel, 0)
FallingNotRising == pc = "player_input" /\ ~IsGrounded(pos, vel, 0) /\ vel.y <= 0

\* A frame has run to its end.
FrameDone == pc = "player_input" /\ tick >= 1

\* Grounded on the baseline with the feet exactly on it and no vertical
\* velocity.
OnBaseline ==
    /\ pc # "apply_friction"
    /\ grounded
    /\ ground_height = 0
    /\ FeetY(pos) = 0
    /\ vel.y = 0

\* Grounded on the baseline with no vertical velocity, the feet on it or above
\* it within the grounded tolerance.
RestsOnBaseline ==
    /\ pc # "apply_friction"
    /\ grounded
    /\ ground_height = 0
    /\ 0 <= FeetY(pos) /\ FeetY(pos) <= grounded_tolerance
    /\ vel.y = 0

\* C23 as stated: with no floor volume under it, a constant dt and wish_jump
\* false, an airborne player at any height and vertical velocity ends grounded
\* with ground_height = 0, feet_y = 0 and vertical velocity 0, for good, and
\* every frame runs to its end.
C23_FreeFallAsStated ==
    /\ Falling => <>[]OnBaseline
    /\ []<>FrameDone

\* C23 amended: such a player ends grounded with ground_height = 0 and vertical
\* velocity 0, for good, with the feet at rest in 0 <= feet_y <= 0.1; the feet
\* are exactly at 0 when the player was not rising at the start (a rising
\* player whose vertical velocity gravity brings to exactly 0 inside the
\* tolerance stays where it is, grounded); every frame runs to its end.
C23_FreeFallEndsOnBaseline ==
    /\ Falling => <>[]RestsOnBaseline
    /\ FallingNotRising => <>[]OnBaseline
    /\ []<>FrameDone

\* A run that began rising at the jump speed over nothing at all: the player
\* is grounded and at rest with the feet on the baseline, and was so already
\* when the last frame began.
C23_Witness ==
    /\ OnBaseline
    /\ pc = "player_input"
    /\ colliders = LevelNone
    /\ pos0.y = Standing
    /\ vel0 = V3(0, 6200, 0)
    /\ tick >= 1

-----------------------------------------------------------------------------
(* The formula of air_accelerate, under SpecAir *)

\* add = min(wish_speed, air_wish_cap) - v . wish_dir
AirDeficit == Min(args.wish_speed, args.air_wishspeed_cap) - Dot(vel, wish_dir)

\* v + wish_dir * min(accel * wish_speed * dt, add), with the full wish_speed.
AirAdded ==
    AddScaled(vel, wish_dir, Min(AccelSpeed(args.accel, args.wish_speed, dt), AirDeficit))

\* r is v with x and z scaled by one factor in (0, 1] to the horizontal speed
\* cap, y untouched; up to the rounding of the two components.
ScaledToCap(r, v, cap) ==
    /\ r.y = v.y
    /\ Shrunk(r.x, v.x) /\ Shrunk(r.z, v.z)
    /\ Abs(r.x * v.z - r.z * v.x) <= Abs(v.x) + Abs(v.z)
    /\ HorizSq(r) <= (cap + Epsilon) * (cap + Epsilon)
    /\ HorizSq(r) >= (cap - Epsilon) * (cap - Epsilon)

\* C24: air_accelerate takes add = min(wish_speed, air_wish_cap) - v . wish_dir,
\* returns v unchanged when add <= 0, and otherwise adds wish_dir * min(accel *
\* wish_speed * dt, add), the acceleration term from the uncapped wish_speed;
\* only then, if the horizontal speed exceeds air_speed_cap, vx and vz are
\* scaled by one factor to the cap.  For a unit wish_dir, v' . wish_dir <=
\* max(v . wish_dir, air_wish_cap).
C24_AirAccelerateFormula ==
    [][pc = "air_accelerate" =>
          /\ AirDeficit <= 0 => vel' = vel
          /\ (AirDeficit > 0 /\ HorizSq(AirAdded) <= args.air_speed_cap * args.air_speed_cap)
                => vel' = AirAdded
          /\ (AirDeficit > 0 /\ HorizSq(AirAdded) > args.air_speed_cap * args.air_speed_cap)
                => ScaledToCap(vel', AirAdded, args.air_speed_cap)
          /\ ExactDot(vel', wish_dir)
                <= Max(ExactDot(vel, wish_dir), args.air_wishspeed_cap * Unit) + Epsilon * Unit]_vars

\* One application under the default tuning, from just below the air speed
\* cap and across the heading: the added speed was 12 * 7.5 * 0.016 = 1.44 (it
\* would be 0.288 from the capped wish speed), and the sum was scaled to the cap.
C24_Witness ==
    /\ pc = "air_accelerate"
    /\ tick = 1
    /\ args = DefaultArgs
    /\ dt = 16
    /\ wish_dir = V3(Unit, 0, 0)
    /\ vel0 = V3(0, 0, -24990)
    /\ 1400 < vel.x /\ vel.x < 1440
    /\ vel.z > vel0.z

-----------------------------------------------------------------------------
(* The axis of accelerate, under SpecKernel *)

\* wish_speed - v . wish_dir, or 0 when that is negative.
GroundDeficit == Max(args.wish_speed - Dot(vel, wish_dir), 0)

\* a / b rounded to nearest, for b of either sign.
Quot(a, b) == IF b > 0 THEN RDiv(a, b) ELSE RDiv(-a, -b)

\* The factor d of v' - v = wish_dir * d, read off a nonzero component of the
\* horizontal wish direction.
GainAlong ==
    IF wish_dir.x # 0 THEN Quot((vel'.x - vel.x) * Unit, wish_dir.x)
    ELSE Quot((vel'.z - vel.z) * Unit, wish_dir.z)

\* C25: for a unit wish_dir, accelerate returns v + wish_dir * d with
\* 0 <= d <= max(wish_speed - v . wish_dir, 0): what it adds has no component
\* across wish_dir, v . wish_dir does not decrease, and with wish_dir
\* perpendicular to v the sideways speed grows while the speed along v stays
\* what it was.
C25_AccelerateAlongWishAxis ==
    [][(pc = "accelerate" /\ NonZero(wish_dir)) =>
          /\ \E d \in (GainAlong - 1)..(GainAlong + 1) :
                /\ 0 <= d /\ d <= GroundDeficit
                /\ vel' = AddScaled(vel, wish_dir, d)
          /\ (vel'.x - vel.x) * wish_dir.z - (vel'.z - vel.z) * wish_dir.x = 0
          /\ vel'.y = vel.y
          /\ ExactDot(vel', wish_dir) >= ExactDot(vel, wish_dir)
          /\ Perpendicular(vel, wish_dir) =>
                /\ ExactDot(vel', vel) = ExactDot(vel, vel)
                /\ ExactDot(vel', wish_dir) > 0
                /\ HorizSq(vel') > HorizSq(vel)]_vars

\* test_accelerate_perpendicular_strafe: forward at 8, strafing right with
\* wish speed 8 and accel 10 for one frame of 0.016: 1.28 sideways, and
\* still 8 forward.
C25_Witness ==
    /\ pc = "accelerate"
    /\ tick = 1
    /\ vel0 = V3(0, 0, -8000)
    /\ wish_dir = V3(Unit, 0, 0)
    /\ args.wish_speed = 8000 /\ args.accel = 10
    /\ dt = 16
    /\ vel = V3(1280, 0, -8000)

-----------------------------------------------------------------------------
(* The slope pass after the floor clamp, under SpecContact *)

\* The floor clamp is over and the feet are at or above the surface of the
\* only slope, at the player's position.
FeetOnOrAboveSlope ==
    /\ pc = "slope_pass"
    /\ Cardinality(SlopeIndices) = 1
    /\ FeetY(pos) >= FloorTop(TheSlope, pos)

\* C26: when, after the floor clamp, the feet are at or above the surface of a
\* slope at the player's position, the slope pass of the same frame changes
\* neither the position nor the velocity.
C26_SlopePassAfterClamp ==
    [][FeetOnOrAboveSlope => (pos' = pos /\ vel' = vel)]_vars

\* The same for the frames whose floor clamp did not move the player: the
\* feet are where player_collision measured them on entry.
SlopePassAfterIdleClamp ==
    [][(FeetOnOrAboveSlope /\ feet_y = FeetY(pos)) => (pos' = pos /\ vel' = vel)]_vars

\* player_collision of the frame is over.
AfterCollision == pc = "apply_velocity"

\* C27: right after the collision step of a frame, feet_y = position.y -
\* player_height/2 is at least the ground_height that ground_check computed in
\* that frame, whatever the collider set (a slope overlapping a higher floor
\* volume included) and the player state.
C27_FeetNotBelowGround == AfterCollision => FeetY(pos) >= ground_height

\* The same right after the floor clamp, before the slope loop.
FeetNotBelowGroundAfterClamp == pc = "slope_pass" => FeetY(pos) >= ground_height

-----------------------------------------------------------------------------
(* Properties of the wall runs, under SpecWall *)

\* z is inside the widened footprint of the only wall.
InsideOnZ(p) == Abs(p.z - LastWall.pos.z) < LastWall.half.z + player_radius

\* A frame has ended that began on the near side of the only wall, and z has
\* been inside its widened footprint.
FrameFromNearSide ==
    /\ pc = "player_input"
    /\ tick >= 1
    /\ Cardinality(WallIndices) = 1
    /\ pos0.x < LastWall.pos.x
    /\ InsideOnZ(pos0) /\ InsideOnZ(pos)

\* C28: with one wall-tagged box, a player who starts at x < wall.x - (half.x +
\* player_radius), with a velocity within the air speed cap, and whose z stays
\* inside the widened footprint, has x < wall.x at the end of every frame,
\* whatever dt is, and so is never pushed out on the far side.  (Every wall
\* run starts at such an x, so the frames before this one began on the near
\* side as well.)
C28_WallsImpassable == FrameFromNearSide => pos.x < LastWall.pos.x

\* The same for the frames of 0.016, in which the player moves at most
\* 25 * 0.016 = 0.4, less than the widened half extent of any wall.
WallsImpassableAtSixtyHertz == (FrameFromNearSide /\ dt = 16) => pos.x < LastWall.pos.x

-----------------------------------------------------------------------------
(* Properties of the bunny-hop runs, under SpecBhop *)

\* player_movement is about to run: position and velocity are still those the
\* frame began with.
AtMovement == pc = "player_movement" /\ pos = pos0

\* The test of ground_check on the state the frame began with.
OnGroundAtFrameStart ==
    /\ FeetY(pos0) <= GroundHeight(colliders, pos0) + grounded_tolerance
    /\ vel.y <= grounded_max_vy

\* The frame before ended in a jump and the player has not left the grounded
\* tolerance yet: the velocity is what gravity left of the jump speed.
RisingFromJump ==
    /\ tick >= 1
    /\ vel.y = sv_jumpspeed - RDiv(sv_gravity * dt, Second)
    /\ vel.y > grounded_max_vy

\* C29: velocity.y is set to sv_jumpspeed only by player_movement, and only in
\* a frame whose ground_check marked the player grounded, that is, whose
\* starting state had feet_y <= ground_height + 0.1 and velocity.y <= 0.1; in
\* every other frame player_movement leaves velocity.y alone.  So, whatever dt
\* is, the frame that follows a jump applies no second impulse while the player
\* still rises faster than 0.1, and with the jump key held no jump starts while
\* the feet are more than 0.1 above the ground height.
C29_NoJumpUnlessGrounded ==
    [][/\ (vel'.y = sv_jumpspeed /\ vel.y # sv_jumpspeed)
              => (AtMovement /\ grounded /\ wish_jump /\ jumped')
       /\ (AtMovement /\ jumped') => (grounded /\ OnGroundAtFrameStart)
       /\ (AtMovement /\ ~OnGroundAtFrameStart) => (~jumped' /\ vel'.y = vel.y)
       /\ (AtMovement /\ RisingFromJump) => (~jumped' /\ vel'.y = vel.y)]_vars

\* The frame after a jump at 60 Hz: the key is down and the feet are still
\* within 0.1 of the ground, the player is rising, and player_movement has
\* not jumped.
C29_Witness ==
    /\ pc = "apply_gravity"
    /\ RisingFromJump
    /\ wish_jump
    /\ FeetY(pos) <= ground_height + grounded_tolerance
    /\ ~grounded
    /\ ~jumped

\* The horizontal part of v.
Horizontal(v) == V3(v.x, 0, v.z)

\* What the air branch of player_movement makes of the horizontal velocity:
\* air_accelerate for a wish direction, nothing without one.
AirBranch ==
    IF NonZero(wish_dir)
    THEN air_accelerate(Horizontal(vel), wish_dir, sv_maxspeed, sv_airaccelerate,
                        sv_air_wishspeed_cap, sv_air_speed_cap, dt)
    ELSE Horizontal(vel)

\* What the ground branch would make of it: apply_friction, then accelerate.
GroundBranch ==
    LET slowed == apply_friction(Horizontal(vel), sv_friction, sv_stopspeed, dt)
    IN IF NonZero(wish_dir)
       THEN accelerate(slowed, wish_dir, sv_maxspeed, sv_accelerate, dt)
       ELSE slowed

\* C30: in a frame where the player is grounded and wish_jump is true,
\* player_movement clears grounded before the horizontal update, so the
\* horizontal velocity is left alone (zero wish direction) or updated by
\* air_accelerate, and apply_friction and accelerate are not applied; gravity is
\* applied in that same frame; and so, with the jump key held, no frame's
\* player_movement takes the ground branch, at a landing or anywhere else.
C30_JumpTickSkipsFriction ==
    [][/\ (pc = "player_movement" /\ grounded /\ wish_jump)
              => /\ ~grounded'
                 /\ vel'.y = sv_jumpspeed
                 /\ Horizontal(vel') = AirBranch
                 /\ (wish_dir = Zero3 => Horizontal(vel') = Horizontal(vel))
       /\ (pc = "player_movement" /\ wish_jump)
              => /\ Horizontal(vel') = AirBranch
                 /\ (GroundBranch # AirBranch => Horizontal(vel') # GroundBranch)
       /\ (pc = "apply_gravity" /\ jumped)
              => vel' = [vel EXCEPT !.y = sv_jumpspeed - RDiv(sv_gravity * dt, Second)]]_vars

\* A landing with the key held and no movement key down: the frame before
\* ended with the feet under the floor top, this frame's player_movement has
\* jumped, and the horizontal velocity, which friction would have shortened, is
\* what it was.
C30_Witness ==
    /\ pc = "apply_gravity"
    /\ jumped
    /\ wish_jump
    /\ tick >= 1
    /\ wish_dir = Zero3
    /\ pos0.y < Standing + ground_height
    /\ HorizSq(vel) > 0
    /\ Horizontal(vel) = Horizontal(vel0)
    /\ apply_friction(Horizontal(vel), sv_friction, sv_stopspeed, dt) # Horizontal(vel)

====
